---- MODULE Spec2Model ----
(***************************************************************************)
(* Provenance engine of sst-detection-system.                              *)
(*                                                                         *)
(* Spec    : the runtime_tracking package (budget_tracker/runtime_tracking)*)
(*           request context, global registry, ingress hook, the           *)
(*           SQLAlchemy before_flush hook, the patched requests client and *)
(*           the sqlite audit store; one action per hook.                  *)
(* SpecRace: the ingress hook of runtime_tracking statement by statement,  *)
(*           for requests served by concurrent threads.                    *)
(* SpecFault: the handlers of Spec with an audit store whose writes can     *)
(*           raise.                                                        *)
(* SpecDetect: the sharing-event log of budget_tracker/runtime_tracking.py  *)
(*           and the queries of budget_tracker/provenance_utils.py over it.*)
(* SpecFingerprint: create_fingerprint and hash_preview on dicts.           *)
(* SpecApp : runtime_tracking from import on: init_runtime_tracking, the   *)
(*           hooks it installs and the audit endpoints.                    *)
(* SpecRP  : the runtime_provenance package                                *)
(*           (budget_tracker/runtime_provenance): its request context,     *)
(*           Flask hooks, before_flush listener, wrapped requests client   *)
(*           and recorder, with the recorder's sqlite writes able to fail. *)
(***************************************************************************)
EXTENDS Naturals, Sequences, FiniteSets, TLC

VARIABLES
    ctx,            \* context.py _request_ctx: the ContextVar's value on each task
    registry,       \* tracker.py GlobalRegistry.tags: fingerprint -> DataTag
    events,         \* storage.py table events, in insertion order
    fingerprints,   \* storage.py table fingerprints: fingerprint -> row
    ignored_hosts,  \* config.py InstrumentationConfig.ignored_hosts
    nextRequest,    \* number of request ids handed out so far (uuid4 per request)
    last,           \* the most recent operation, if an outbound call: what it did
    pc,             \* SpecRace: where each task stands inside _rt_before_request
    rp,             \* SpecRP: the runtime_provenance package's state
    app,            \* SpecDetect: the application database's table
                    \* data_sharing_events and the clock
    proc            \* the module globals of runtime_tracking and what
                    \* bootstrap installed: _INITIALISED, _PATCHED, _TRACKER,
                    \* the hooks on the app, the session and the client

vars == <<ctx, registry, events, fingerprints, ignored_hosts, nextRequest, last, pc, rp, app, proc>>

-----------------------------------------------------------------------------
(* Bounds *)

MaxEvents == 3
MaxRequests == 2
RPMaxRows == 2
MaxFailAt == 2
MaxSharing == 3
MaxNow == 2
MaxThreshold == 2
DetectionWindow == 1
MaxKeys == 2
MaxDepth == 2
default_threshold == 5
export_limit == 1000
summary_days == 30

Tasks == {"t1", "t2"}

-----------------------------------------------------------------------------
(* Python values.  kind "str" is a str, kind "obj" an object json cannot   *)
(* serialise itself (Decimal, date), kind "none" is None.                    *)

None == [kind |-> "none", text |-> "None"]
Str(s) == [kind |-> "str", text |-> s]
Int(s) == [kind |-> "int", text |-> s]
Obj(s) == [kind |-> "obj", text |-> s]

vEmail == Str("a@x.com")
vIncome == Str("4000")
vConst == Str("USD")
vDecimal == Obj("4000")

InboundValues == {vEmail, vIncome}
AppValues == {vEmail, vConst, vDecimal}

\* str(value)
PyStr(v) == v.text

\* a dict as a value: its items in insertion order, the keys str or int
StrKey(s) == [kind |-> "str", text |-> s]
IntKey(s) == [kind |-> "int", text |-> s]
Item(key, value) == [key |-> key, value |-> value]
Map(items) == [kind |-> "dict", items |-> items]

\* the place of a key among the keys of its type ("a" < "b", 1 < 2)
KeyRank(key) ==
    CASE key.text = "a" -> 1
      [] key.text = "b" -> 2
      [] key.text = "1" -> 1
      [] key.text = "2" -> 2

RECURSIVE SortedItems(_, _)

\* sorted(dct.items()) on keys of one type
SortedItems(items, sorted) ==
    IF items = <<>> THEN sorted
    ELSE LET x == Head(items)
             k == Cardinality({i \in 1..Len(sorted) :
                                 KeyRank(sorted[i].key) <= KeyRank(x.key)})
         IN SortedItems(Tail(items),
                SubSeq(sorted, 1, k) \o <<x>> \o SubSeq(sorted, k + 1, Len(sorted)))

RECURSIVE SortRaisesTypeError(_)

\* sort_keys=True compares the keys of each dict: '<' between a str and an
\* int raises TypeError, at whatever depth the dict is
SortRaisesTypeError(v) ==
    /\ v.kind = "dict"
    /\ \/ \E i, j \in 1..Len(v.items) : v.items[i].key.kind # v.items[j].key.kind
       \/ \E i \in 1..Len(v.items) : SortRaisesTypeError(v.items[i].value)

RECURSIVE JsonString(_), JsonItems(_)

\* the items of a JSON object: "key": value, ... (an int key is written as
\* a string)
JsonItems(items) ==
    IF items = <<>> THEN ""
    ELSE "\"" \o Head(items).key.text \o "\": " \o JsonString(Head(items).value)
         \o (IF Len(items) > 1 THEN ", " ELSE "") \o JsonItems(Tail(items))

\* the text json.dumps(value, sort_keys=True, default=str) returns
JsonString(v) ==
    CASE v.kind = "none" -> "null"
      [] v.kind = "str" -> "\"" \o v.text \o "\""
      [] v.kind = "int" -> v.text
      [] v.kind = "obj" -> "\"" \o PyStr(v) \o "\""
      [] v.kind = "dict" -> "{" \o JsonItems(SortedItems(v.items, <<>>)) \o "}"

RECURSIVE PyRepr(_), ReprItems(_)

\* the items of the repr of a dict, in insertion order
ReprItems(items) ==
    IF items = <<>> THEN ""
    ELSE LET key == Head(items).key
         IN (IF key.kind = "str" THEN "'" \o key.text \o "'" ELSE key.text)
            \o ": " \o PyRepr(Head(items).value)
            \o (IF Len(items) > 1 THEN ", " ELSE "") \o ReprItems(Tail(items))

\* repr(value); str(value) of a dict is the same text
PyRepr(v) ==
    CASE v.kind = "none" -> "None"
      [] v.kind = "str" -> "'" \o v.text \o "'"
      [] v.kind = "int" -> v.text
      [] v.kind = "obj" -> "<" \o v.text \o ">"
      [] v.kind = "dict" -> "{" \o ReprItems(v.items) \o "}"

\* json.dumps(value, sort_keys=True, default=str): a str is quoted, None is
\* null, an object json cannot serialise goes through default=str and is then
\* quoted like a str, a dict is written with its keys sorted.
JsonDumps(v) ==
    CASE v.kind = "none" -> <<"null">>
      [] v.kind = "str" -> <<"quoted", v.text>>
      [] v.kind = "int" -> <<"number", v.text>>
      [] v.kind = "obj" -> <<"quoted", PyStr(v)>>
      [] v.kind = "dict" -> <<"object", JsonString(v)>>

\* utils.create_fingerprint: the sha256 hex digest of the serialisation, or
\* of repr(value) when json.dumps raised TypeError
\* (the digest is taken to be injective on the serialisations of the model).
create_fingerprint(v) ==
    IF SortRaisesTypeError(v) THEN <<"sha256", <<"repr", PyRepr(v)>>>>
    ELSE <<"sha256", JsonDumps(v)>>

-----------------------------------------------------------------------------
(* Payload trees: dicts (insertion-ordered), lists and leaves.               *)

Leaf(v) == [t |-> "leaf", v |-> v]
Dict(items) == [t |-> "dict", items |-> items]
List(items) == [t |-> "list", items |-> items]

RECURSIVE FlattenDict(_), FlattenList(_, _), flatten_payload(_)

Prefixed(sub_key, pairs) ==
    [i \in 1..Len(pairs) |->
        IF pairs[i][1] # <<>> THEN <<<<sub_key>> \o pairs[i][1], pairs[i][2]>>
                              ELSE <<<<sub_key>>, pairs[i][2]>>]

\* utils.flatten_payload, the dict branch: items in insertion order
FlattenDict(items) ==
    IF items = <<>> THEN <<>>
    ELSE Prefixed(Head(items)[1], flatten_payload(Head(items)[2]))
            \o FlattenDict(Tail(items))

\* utils.flatten_payload, the list branch: items by index, str(index) in the path
FlattenList(items, index) ==
    IF items = <<>> THEN <<>>
    ELSE Prefixed(ToString(index), flatten_payload(Head(items)))
            \o FlattenList(Tail(items), index + 1)

\* utils.flatten_payload: the sequence of <<path, leaf value>> it yields; a
\* path is the sequence of its dotted components, <<>> for a bare leaf.
flatten_payload(payload) ==
    CASE payload.t = "dict" -> FlattenDict(payload.items)
      [] payload.t = "list" -> FlattenList(payload.items, 0)
      [] OTHER -> <<<<<<>>, payload.v>>>>

-----------------------------------------------------------------------------
(* Tags, contexts, registry *)

NoCtx == [none |-> TRUE]
NoRequest == 0
NoUser == "-"

\* events.DataTag (created_at, a wall-clock stamp, is left out)
DataTag(fingerprint, field, category, description, owner, source, preview) ==
    [fingerprint |-> fingerprint, field |-> field, category |-> category,
     description |-> description, owner |-> owner, source |-> source,
     preview |-> preview]

\* context.RequestContext
RequestContext(request_id, user_id, path, method) ==
    [request_id |-> request_id, user_id |-> user_id, path |-> path,
     method |-> method, tags_by_fingerprint |-> <<>>]

\* RequestContext.register_tag: builds the tag and stores it under its
\* fingerprint, replacing whatever the context held there.
register_tag(c, field, category, description, value, owner, source) ==
    LET tag == DataTag(create_fingerprint(value), field, category, description,
                       owner, source,
                       IF value # None THEN PyStr(value) ELSE "null")
    IN [c |-> [c EXCEPT !.tags_by_fingerprint =
                    (tag.fingerprint :> tag) @@ c.tags_by_fingerprint],
        tag |-> tag]

\* RequestContext.find_tags
find_tags(c, fps) ==
    LET hit == SelectSeq(fps, LAMBDA f : f \in DOMAIN c.tags_by_fingerprint)
    IN [i \in 1..Len(hit) |-> c.tags_by_fingerprint[hit[i]]]

\* GlobalRegistry.register: insert if absent
RegistryRegister(reg, tag) ==
    IF tag.fingerprint \notin DOMAIN reg
    THEN (tag.fingerprint :> tag) @@ reg
    ELSE reg

\* GlobalRegistry.match_fingerprints
match_fingerprints(reg, fps) ==
    LET hit == SelectSeq(fps, LAMBDA f : f \in DOMAIN reg)
    IN [i \in 1..Len(hit) |-> reg[hit[i]]]

-----------------------------------------------------------------------------
(* storage.py: the sqlite audit store *)

NoEvent == 0

RECURSIVE JsonTextItems(_, _), JsonText(_)

\* json.dumps(payload, default=str) as record_event stores it: the same tree
\* with every value json cannot serialise replaced by its str().
JsonText(tree) ==
    CASE tree.t = "dict" -> Dict(JsonTextItems(tree.items, TRUE))
      [] tree.t = "list" -> List(JsonTextItems(tree.items, FALSE))
      [] OTHER -> IF tree.v.kind = "obj" THEN Leaf(Str(PyStr(tree.v))) ELSE tree

JsonTextItems(items, keyed) ==
    IF items = <<>> THEN <<>>
    ELSE <<IF keyed THEN <<Head(items)[1], JsonText(Head(items)[2])>>
                    ELSE JsonText(Head(items))>>
            \o JsonTextItems(Tail(items), keyed)

\* events.ProvenanceEvent (created_at left out); event_id is a fresh uuid4
ProvenanceEvent(event_id, event_type, actor, target, payload, request_id, user_id, matched_tags, extras) ==
    [event_id |-> event_id, event_type |-> event_type, actor |-> actor,
     target |-> target, payload |-> payload, request_id |-> request_id,
     user_id |-> user_id, matched_tags |-> matched_tags, extras |-> extras]

\* ProvenanceStorage.record_event: one row appended to table events, payload
\* and extras as JSON text
StorageRecordEvent(evs, event) ==
    Append(evs, [event EXCEPT !.payload = JsonText(event.payload),
                              !.extras = JsonText(event.extras)])

\* ProvenanceStorage.upsert_fingerprint: INSERT ... ON CONFLICT(fingerprint)
\* DO UPDATE of field, category, description, owner (first_seen_event_id kept)
upsert_fingerprint(fpt, tag, event_id) ==
    IF tag.fingerprint \in DOMAIN fpt
    THEN [fpt EXCEPT ![tag.fingerprint] =
            [@ EXCEPT !.field = tag.field, !.category = tag.category,
                      !.description = tag.description, !.owner = tag.owner]]
    ELSE (tag.fingerprint :>
            [first_seen_event_id |-> event_id, field |-> tag.field,
             category |-> tag.category, description |-> tag.description,
             owner |-> tag.owner]) @@ fpt

-----------------------------------------------------------------------------
(* tracker.py: RuntimeTracker.  The tracker's operations are written over an  *)
(* engine record E = [ctx, registry, fingerprints, events], ctx being the    *)
(* calling task's get_request().  E also carries how the store behaves       *)
(* during the handler: fail_at is the number of the store write that raises  *)
(* (sqlite3.OperationalError from conn.execute or conn.commit; 0 when none   *)
(* does), writes counts the store writes attempted so far, and raised says   *)
(* that the exception is on its way out of the handler, every statement      *)
(* after the raising one being skipped.                                      *)

Engine(c, reg, fpt, evs) ==
    [ctx |-> c, registry |-> reg, fingerprints |-> fpt, events |-> evs,
     fail_at |-> 0, writes |-> 0, raised |-> FALSE, attempts |-> 0]

\* the engine of a handler during which store write number fail_at raises
FaultyEngine(E, fail_at) == [E EXCEPT !.fail_at = fail_at]

\* the store write about to be made raises
Raises(E) == E.fail_at = E.writes + 1

\* a store write that raised: nothing is written (the connection is closed
\* without commit) and nothing retries it
Raised(E) == [E EXCEPT !.writes = @ + 1, !.raised = TRUE, !.attempts = 1]

\* a store write that went through
Written(E) == [E EXCEPT !.writes = @ + 1]

\* register_input without its self.registry.register(tag)
register_input_context_only(E, field, description, category, value, owner, source) ==
    LET r == IF E.ctx # NoCtx
             THEN register_tag(E.ctx, field, category, description, value,
                               owner, source)
             ELSE [c |-> NoCtx,
                   tag |-> DataTag(create_fingerprint(value), field, category,
                                   description, owner, source, PyStr(value))]
        E1 == [E EXCEPT !.ctx = r.c]
    IN IF E.raised THEN E
       ELSE IF Raises(E1) THEN Raised(E1)
       ELSE [Written(E1) EXCEPT !.fingerprints =
                upsert_fingerprint(E.fingerprints, r.tag, NoEvent)]

\* RuntimeTracker.register_input
register_input(E, field, description, category, value, owner, source) ==
    LET r == IF E.ctx # NoCtx
             THEN register_tag(E.ctx, field, category, description, value,
                               owner, source)
             ELSE [c |-> NoCtx,
                   tag |-> DataTag(create_fingerprint(value), field, category,
                                   description, owner, source, PyStr(value))]
        E1 == [E EXCEPT !.ctx = r.c,
                        !.registry = RegistryRegister(E.registry, r.tag)]
    IN IF E.raised THEN E
       ELSE IF Raises(E1) THEN Raised(E1)
       ELSE [Written(E1) EXCEPT !.fingerprints =
                upsert_fingerprint(E.fingerprints, r.tag, NoEvent)]

RECURSIVE RecordMatched(_, _, _)

\* RuntimeTracker.record_event, the loop over event.matched_tags
RecordMatched(E, tags, event_id) ==
    IF tags = <<>> \/ E.raised THEN E
    ELSE IF Raises(E) THEN Raised(E)
    ELSE RecordMatched(
            [Written(E) EXCEPT !.fingerprints =
                        upsert_fingerprint(E.fingerprints, Head(tags), event_id),
                      !.registry = RegistryRegister(E.registry, Head(tags))],
            Tail(tags), event_id)

\* RuntimeTracker.record_event
record_event(E, event) ==
    IF E.raised THEN E
    ELSE IF Raises(E) THEN Raised(E)
    ELSE RecordMatched([Written(E) EXCEPT !.events = StorageRecordEvent(E.events, event)],
                       event.matched_tags, event.event_id)

\* the fingerprints match_payload collects from flatten_payload
PayloadFingerprints(payload) ==
    LET leaves == flatten_payload(payload)
    IN [i \in 1..Len(leaves) |-> create_fingerprint(leaves[i][2])]

RECURSIVE Unique(_, _)

\* match_payload's "remove duplicates while preserving order"
Unique(matched, seen) ==
    IF matched = <<>> THEN <<>>
    ELSE IF Head(matched).fingerprint \in seen
         THEN Unique(Tail(matched), seen)
         ELSE <<Head(matched)>>
                \o Unique(Tail(matched), seen \cup {Head(matched).fingerprint})

\* match_payload without its registry lookup: the context's tags only
match_payload_context_only(E, payload) ==
    LET fps == PayloadFingerprints(payload)
    IN Unique(IF E.ctx # NoCtx THEN find_tags(E.ctx, fps) ELSE <<>>, {})

\* match_payload with the registry's matches put before the context's
match_payload_registry_first(E, payload) ==
    LET fps == PayloadFingerprints(payload)
        matched == match_fingerprints(E.registry, fps)
                     \o (IF E.ctx # NoCtx THEN find_tags(E.ctx, fps) ELSE <<>>)
    IN Unique(matched, {})

\* RuntimeTracker.match_payload
match_payload(E, payload) ==
    LET fps == PayloadFingerprints(payload)
        matched == (IF E.ctx # NoCtx THEN find_tags(E.ctx, fps) ELSE <<>>)
                     \o match_fingerprints(E.registry, fps)
    IN Unique(matched, {})

CtxRequestId(c) == IF c # NoCtx THEN c.request_id ELSE NoRequest
CtxUserId(c) == IF c # NoCtx THEN c.user_id ELSE NoUser

RECURSIVE CollectionMatches(_, _)

\* record_collection's loop: registry matches of each value, duplicates kept
CollectionMatches(reg, items) ==
    IF items = <<>> THEN <<>>
    ELSE match_fingerprints(reg, <<create_fingerprint(Head(items)[2].v)>>)
            \o CollectionMatches(reg, Tail(items))

\* RuntimeTracker.record_collection
record_collection(E, data) ==
    record_event(E,
        ProvenanceEvent(Len(E.events) + 1, "DATA_COLLECTION", "flask.request",
                        "application", data, CtxRequestId(E.ctx),
                        CtxUserId(E.ctx),
                        CollectionMatches(E.registry, data.items), Dict(<<>>)))

\* RuntimeTracker.record_storage_event
record_storage_event(E, model_name, action, instance_id, field_values, owner) ==
    record_event(E,
        ProvenanceEvent(Len(E.events) + 1, "DATA_STORAGE", model_name, action,
                        Dict(<<<<"fields", field_values>>,
                               <<"instance_id", Leaf(instance_id)>>>>),
                        CtxRequestId(E.ctx),
                        IF E.ctx # NoCtx THEN E.ctx.user_id ELSE owner,
                        match_payload(E, field_values),
                        Dict(<<<<"owner", Leaf(IF owner = NoUser THEN None
                                                                ELSE Str(owner))>>>>)))

\* RuntimeTracker.record_share_event
record_share_event(E, method, url, payload, response_status) ==
    record_event(E,
        ProvenanceEvent(Len(E.events) + 1, "DATA_SHARE", "requests", url,
                        Dict(<<<<"method", Leaf(Str(method))>>,
                               <<"payload", payload>>,
                               <<"response_status", Leaf(response_status)>>>>),
                        CtxRequestId(E.ctx), CtxUserId(E.ctx),
                        match_payload(E, payload), Dict(<<>>)))

-----------------------------------------------------------------------------
(* config.py: InstrumentationConfig.default(), the entries the model uses *)

FieldConfig(category, description, pii, owner_attribute) ==
    [category |-> category, description |-> description, pii |-> pii,
     owner_attribute |-> owner_attribute]

\* tracked_models: model name -> its fields in configuration order
TrackedModels == {"User"}
ModelFieldNames(model_name) == <<"email", "currency">>
ModelFieldConfig(model_name, field_name) ==
    CASE field_name = "email" ->
            FieldConfig("contact.email", "User email address", TRUE, "email")
      [] field_name = "currency" ->
            FieldConfig("financial.currency", "Preferred currency", FALSE, "email")

\* input_fields
InputFieldNames == {"email", "income"}
InputFieldConfig(key) ==
    CASE key = "email" -> [category |-> "contact.email", description |-> "Email address"]
      [] key = "income" -> [category |-> "financial.income", description |-> "Declared income"]

IgnoredHosts == {"internal.local"}

-----------------------------------------------------------------------------
(* context.py: start_request / get_request / end_request on a ContextVar,   *)
(* whose value is per task.                                                 *)

start_request(cs, t, request_id, user_id, path, method) ==
    [cs EXCEPT ![t] = RequestContext(request_id, user_id, path, method)]

\* get_request on a module-level global in place of the ContextVar: whichever
\* context is set, whoever asks
get_request_global(cs, t) ==
    IF \E u \in Tasks : cs[u] # NoCtx
    THEN cs[CHOOSE u \in Tasks : cs[u] # NoCtx /\ (u # t \/ \A w \in Tasks \ {t} : cs[w] = NoCtx)]
    ELSE NoCtx

get_request(cs, t) == cs[t]

end_request(cs, t) == [cs EXCEPT ![t] = NoCtx]

-----------------------------------------------------------------------------
(* flask_hooks.py *)

\* f"HTTP {request.method} {request.path}"
HttpSource(method, path) == "HTTP " \o method \o " " \o path

RECURSIVE RegisterInputs(_, _, _)

\* _rt_before_request, the loop over payload.items()
RegisterInputs(E, items, source) ==
    IF items = <<>> THEN E
    ELSE LET key == Head(items)[1]
             value == Head(items)[2].v
             configured == key \in InputFieldNames
         IN RegisterInputs(
                register_input(E, key,
                    IF configured THEN InputFieldConfig(key).description
                                  ELSE "Form field " \o key,
                    IF configured THEN InputFieldConfig(key).category
                                  ELSE "unknown",
                    value, E.ctx.user_id, source),
                Tail(items), source)

\* _rt_before_request after start_request: registers every payload field,
\* then records the collection
rt_before_request(E, payload, method, path) ==
    record_collection(RegisterInputs(E, payload.items, HttpSource(method, path)),
                      payload)

-----------------------------------------------------------------------------
(* sqlalchemy_patch.py *)

OwnerId(v) == IF v = None THEN NoUser ELSE PyStr(v)

RECURSIVE ProcessFields_every_field(_, _, _, _)

\* _process_instance's loop without the test of field_config.pii
ProcessFields_every_field(E, obj, names, acc) ==
    IF names = <<>> THEN [E |-> E, owner |-> acc.owner, field_values |-> acc.field_values]
    ELSE LET field_name == Head(names)
             field_config == ModelFieldConfig(obj.class, field_name)
             value == obj.attrs[field_name]
             owner == obj.attrs[field_config.owner_attribute]
             E1 == IF value # None
                   THEN register_input(E, obj.class \o "." \o field_name,
                            field_config.description, field_config.category,
                            value, OwnerId(owner), "model:" \o obj.class)
                   ELSE E
         IN ProcessFields_every_field(E1, obj, Tail(names),
                [owner |-> owner,
                 field_values |-> Append(acc.field_values, <<field_name, Leaf(value)>>)])

RECURSIVE ProcessFields(_, _, _, _)

\* _process_instance, the loop over model_config.fields: registers the PII
\* fields that are not None; acc carries owner and field_values
ProcessFields(E, obj, names, acc) ==
    IF names = <<>> THEN [E |-> E, owner |-> acc.owner, field_values |-> acc.field_values]
    ELSE LET field_name == Head(names)
             field_config == ModelFieldConfig(obj.class, field_name)
             value == obj.attrs[field_name]
             owner == obj.attrs[field_config.owner_attribute]
             E1 == IF value # None /\ field_config.pii
                   THEN register_input(E, obj.class \o "." \o field_name,
                            field_config.description, field_config.category,
                            value, OwnerId(owner), "model:" \o obj.class)
                   ELSE E
         IN ProcessFields(E1, obj, Tail(names),
                [owner |-> owner,
                 field_values |-> Append(acc.field_values, <<field_name, Leaf(value)>>)])

\* _process_instance
process_instance(E, obj, action) ==
    IF obj.class \notin TrackedModels THEN E
    ELSE LET r == ProcessFields(E, obj, ModelFieldNames(obj.class),
                                [owner |-> None, field_values |-> <<>>])
         IN record_storage_event(r.E, obj.class, action,
                                 IF obj.id # None THEN Str(PyStr(obj.id)) ELSE None,
                                 Dict(r.field_values), OwnerId(r.owner))

-----------------------------------------------------------------------------
(* requests_patch.py *)

NoArg == [t |-> "absent"]

Kwargs(json, data, params, headers) ==
    [json |-> json, data |-> data, params |-> params, headers |-> headers]

\* key.lower().startswith("x-") on the header names of the model
LowerStartsWithXDash(key) == key \in {"X-Api-Key", "x-trace-id"}

\* _normalise_payload (data given as a dict or list)
normalise_payload(kwargs) ==
    Dict(
        (IF kwargs.json # NoArg THEN <<<<"json", kwargs.json>>>> ELSE <<>>)
     \o (IF kwargs.data # NoArg THEN <<<<"data", kwargs.data>>>> ELSE <<>>)
     \o (IF kwargs.params # NoArg THEN <<<<"params", kwargs.params>>>> ELSE <<>>)
     \o (IF kwargs.headers # NoArg
         THEN <<<<"headers",
                  Dict(SelectSeq(kwargs.headers.items,
                                 LAMBDA kv : LowerStartsWithXDash(kv[1])))>>>>
         ELSE <<>>))

Url(scheme, host, path) == [scheme |-> scheme, host |-> host, path |-> path]

\* urlparse(url).hostname
Hostname(url) == url.host

\* the url as the caller wrote it
UrlText(url) == url.scheme \o "://" \o url.host \o url.path

\* audit_logger.log_http_request: f"{parsed.scheme}://{parsed.netloc}"
Origin(url) == url.scheme \o "://" \o url.host

Response(status_code) == [kind |-> "return", status_code |-> status_code]
Raise(exc) == [kind |-> "raise", exc |-> exc]
ReturnNone == [kind |-> "return", none |-> TRUE]

\* the ignore test made on scheme://host in place of the hostname
HostIgnored_netloc(ignored, url) ==
    ignored # {} /\ (url.scheme \o "://" \o url.host) \in ignored

\* the finally block's test for an ignored host
HostIgnored(ignored, url) ==
    ignored # {} /\ Hostname(url) \in ignored

\* instrumented_request: outcome is what _ORIGINAL_REQUEST does (returns a
\* response or raises).  The finally block records the share event unless the
\* host is ignored; its bare return then replaces the response or the
\* exception on its way to the caller, and so does an exception raised by
\* record_share_event.
instrumented_request(E, ignored, method, url, kwargs, outcome) ==
    LET payload_dict == normalise_payload(kwargs)
        status_code == IF outcome.kind = "return" THEN outcome.status_code ELSE None
        call == [method |-> method, url |-> url, kwargs |-> kwargs]  \* as passed on
    IN IF HostIgnored(ignored, url)
       THEN [E |-> E, calls |-> <<call>>, outcome |-> outcome, seen |-> ReturnNone]
       ELSE [E |-> record_share_event(E, method, url, payload_dict, status_code),
             calls |-> <<call>>, outcome |-> outcome,
             seen |-> IF record_share_event(E, method, url, payload_dict,
                                            status_code).raised
                      THEN Raise("sqlite3.OperationalError") ELSE outcome]

-----------------------------------------------------------------------------
(* __init__.py, instrumentation.py, requests_patch.py: initialisation.  proc *)
(* holds the module globals _INITIALISED, _PATCHED and _TRACKER, the config  *)
(* of every RuntimeTracker built so far (its audit_token; a tracker is named *)
(* by its number), and per hook point the trackers whose closures are        *)
(* installed there, in the order of installation.                            *)

NoTracker == 0
NoAuditToken == ""

\* the process after the modules are imported
ProcImported ==
    [INITIALISED |-> FALSE, PATCHED |-> FALSE, TRACKER |-> NoTracker,
     configs |-> <<>>, blueprint |-> NoTracker, before_request_funcs |-> <<>>,
     before_flush |-> <<>>, wrappers |-> <<>>]

\* flask_hooks.register_flask_hooks: the blueprint only when the app has none
\* yet, the request hooks always
register_flask_hooks(P, tracker) ==
    [P EXCEPT !.blueprint = IF @ = NoTracker THEN tracker ELSE @,
              !.before_request_funcs = Append(@, tracker)]

\* sqlalchemy_patch.instrument_sqlalchemy
instrument_sqlalchemy(P, tracker) ==
    [P EXCEPT !.before_flush = Append(@, tracker)]

\* requests_patch.patch_requests
patch_requests(P, tracker) ==
    IF P.PATCHED THEN P
    ELSE [P EXCEPT !.wrappers = Append(@, tracker), !.PATCHED = TRUE]

\* instrumentation.bootstrap; audit_token is what the loaded configuration
\* holds
bootstrap(P, with_app, with_db, audit_token) ==
    LET tracker == Len(P.configs) + 1
        P1 == [P EXCEPT !.configs = Append(@, audit_token), !.TRACKER = tracker]
        P2 == IF with_app THEN register_flask_hooks(P1, tracker) ELSE P1
        P3 == IF with_db THEN instrument_sqlalchemy(P2, tracker) ELSE P2
    IN patch_requests(P3, tracker)

\* init_runtime_tracking without its test of _INITIALISED
init_runtime_tracking_every_call(P, with_app, with_db, audit_token) ==
    [bootstrap(P, with_app, with_db, audit_token) EXCEPT !.INITIALISED = TRUE]

\* runtime_tracking.init_runtime_tracking
init_runtime_tracking(P, with_app, with_db, audit_token) ==
    IF P.INITIALISED THEN P
    ELSE [bootstrap(P, with_app, with_db, audit_token) EXCEPT !.INITIALISED = TRUE]

\* the process the other specifications run in: initialised once with the app
\* and the db, no audit token configured
ProcInitialised == init_runtime_tracking(ProcImported, TRUE, TRUE, NoAuditToken)

-----------------------------------------------------------------------------
(* flask_hooks._create_audit_blueprint and storage.fetch_*: the audit        *)
(* endpoints.  A header or query argument that is absent is "".              *)

\* require_token with "provided == expected" turned into "provided != ''"
require_token_any(expected, header, arg) ==
    IF expected = NoAuditToken THEN TRUE
    ELSE (IF header # "" THEN header ELSE arg) # ""

\* require_token
require_token(expected, header, arg) ==
    IF expected = NoAuditToken THEN TRUE
    ELSE (IF header # "" THEN header ELSE arg) = expected

audit_limit_default == 100
audit_limit_cap == 500

\* int(text) on the limit texts of the model
PyInt(text) == CASE text = "1" -> 1 [] text = "2" -> 2 [] OTHER -> 0

Min(a, b) == IF a < b THEN a ELSE b

\* the text of column target as record_event bound it
TargetText(e) == IF e.event_type = "DATA_SHARE" THEN UrlText(e.target) ELSE e.target

\* a row of table events as the SELECT of fetch_events returns it: id,
\* created_at, event_type, actor, target, payload, request_id, user_id,
\* matched_tags, extras.  The position of the row in the log stands for
\* created_at
Row(e) ==
    <<e.event_id, e.event_id, e.event_type, e.actor, TargetText(e), e.payload,
      e.request_id, e.user_id, e.matched_tags, e.extras>>

\* row[i], counted from 0
Col(row, i) == row[i + 1]

\* json.loads(text) returns: text is a JSON document.  Of the plain texts a
\* column can hold only these are
ParsesAsJson(text) == text \in {"null", "true", "false", "{}", "[]"}

Reverse(s) == [i \in 1..Len(s) |-> s[Len(s) + 1 - i]]

\* the rows fetch_events selects: WHERE event_type = ? when a type is given,
\* ORDER BY created_at DESC LIMIT ?
SelectedRows(evs, limit, event_type) ==
    LET kept == IF event_type # "" THEN SelectSeq(evs, LAMBDA e : e.event_type = event_type)
                ELSE evs
        rows == Reverse(kept)
    IN [i \in 1..Min(limit, Len(rows)) |-> Row(rows[i])]

\* the dict fetch_events builds of a row, with the indexes of the code
RowDict(row) ==
    [event_id |-> Col(row, 0), created_at |-> Col(row, 1), event_type |-> Col(row, 2),
     actor |-> Col(row, 3), target |-> Col(row, 4), payload |-> Col(row, 4),
     request_id |-> Col(row, 5), user_id |-> Col(row, 6),
     matched_tags |-> Col(row, 8), extras |-> Col(row, 9)]

\* ProvenanceStorage.fetch_events: payload = json.loads(row[4]) if row[4]
\* else {} parses column target, and raises on the first row whose target is
\* not a JSON document
fetch_events(evs, limit, event_type) ==
    LET rows == SelectedRows(evs, limit, event_type)
    IN IF \E i \in 1..Len(rows) : Col(rows[i], 4) # "" /\ ~ParsesAsJson(Col(rows[i], 4))
       THEN Raise("json.JSONDecodeError")
       ELSE [kind |-> "return", value |-> [i \in 1..Len(rows) |-> RowDict(rows[i])]]

\* ProvenanceStorage.fetch_fingerprints (the rows come in no stated order)
fetch_fingerprints(fpt) ==
    {[fingerprint |-> f, first_seen_event_id |-> fpt[f].first_seen_event_id,
      field |-> fpt[f].field, category |-> fpt[f].category,
      description |-> fpt[f].description, owner |-> fpt[f].owner] : f \in DOMAIN fpt}

\* what an audit request answers
AuditResponse(status, body) == [status |-> status, body |-> body]

\* the blueprint on one request: _check_access, then the view
audit_view(expected, E, endpoint, header, args) ==
    IF ~require_token(expected, header, args.audit_token)
    THEN AuditResponse(401, [error |-> "unauthorised"])
    ELSE CASE endpoint = "events" ->
                LET r == fetch_events(E.events,
                            Min(IF args.limit # "" THEN PyInt(args.limit)
                                ELSE audit_limit_default, audit_limit_cap),
                            args.event_type)
                IN IF r.kind = "raise" THEN AuditResponse(500, [error |-> r.exc])
                   ELSE AuditResponse(200, [events |-> r.value])
           [] endpoint = "fingerprints" ->
                AuditResponse(200, [fingerprints |-> fetch_fingerprints(E.fingerprints)])
           [] endpoint = "status" ->
                AuditResponse(200, [registry_size |-> Cardinality(DOMAIN E.registry)])

-----------------------------------------------------------------------------
(* Inputs *)

\* session.get("user_id") of the client each task serves
SessionUser(t) == IF t = "t1" THEN "u1" ELSE NoUser

InboundPayloads ==
    {Dict(<<<<"email", Leaf(vEmail)>>, <<"income", Leaf(vIncome)>>>>),
     Dict(<<<<"note", Leaf(vIncome)>>>>)}

Entity(class, attrs, id) == [class |-> class, attrs |-> attrs, id |-> id]

Entities ==
    {Entity("User", [email |-> vEmail, currency |-> vConst], None),
     Entity("User", [email |-> vConst, currency |-> vDecimal], Int("1")),
     Entity("User", [email |-> None, currency |-> vEmail], Int("1")),
     Entity("Expense", [amount |-> vDecimal], None)}

\* a pending object is new when it has no primary key yet, else modified
FlushAction(obj) == IF obj.id = None THEN "insert" ELSE "update"

Urls == {Url("https", "api.partner.com", "/score"), Url("http", "internal.local", "/sync")}

OutboundKwargs ==
    {Kwargs(Dict(<<<<"user", Leaf(vConst)>>>>), NoArg, NoArg, NoArg),
     Kwargs(Dict(<<<<"profile", Dict(<<<<"income", Leaf(vDecimal)>>>>)>>,
                  <<"ids", List(<<Leaf(vEmail)>>)>>>>),
            NoArg, NoArg,
            Dict(<<<<"Authorization", Leaf(vConst)>>, <<"X-Api-Key", Leaf(vIncome)>>>>))}

Outcomes == {Response(Int("200")), Raise("ConnectionError")}

-----------------------------------------------------------------------------
(* The state machine *)

\* an outbound call as its caller made it
Call(method, url, kwargs) == [method |-> method, url |-> url, kwargs |-> kwargs]

\* last after an outbound call: the caller's call, the calls the underlying
\* client received, what the underlying client did and what the caller saw
LastCall(call, calls, outcome, seen) ==
    [op |-> "request", call |-> call, calls |-> calls, outcome |-> outcome,
     seen |-> seen]

\* last after any other operation
NoCall == [op |-> "other"]

\* a task outside _rt_before_request
Idle == [at |-> "idle"]

\* the application database before any sharing event is logged
AppInitial == [data_sharing_events |-> <<>>, now |-> 0]

\* runtime_provenance after initialize(): no context set, empty tables, the
\* TagManager's counter at 0
RPInitial ==
    [ctx |-> [t \in Tasks |-> NoCtx], active |-> [t \in Tasks |-> FALSE],
     requests |-> <<>>, data_events |-> <<>>, storage_events |-> <<>>,
     share_events |-> <<>>, counter |-> 0]

Init ==
    /\ ctx = [t \in Tasks |-> NoCtx]
    /\ registry = <<>>
    /\ events = <<>>
    /\ fingerprints = <<>>
    /\ ignored_hosts = IgnoredHosts
    /\ nextRequest = 0
    /\ last = NoCall
    /\ pc = [t \in Tasks |-> Idle]
    /\ rp = RPInitial
    /\ app = AppInitial
    /\ proc = ProcInitialised

\* flask_hooks._rt_before_request on task t
BeforeRequest(t, user_id, payload, method, path) ==
    /\ ctx[t] = NoCtx
    /\ nextRequest < MaxRequests
    /\ Len(events) < MaxEvents
    /\ \E started \in {start_request(ctx, t, nextRequest + 1, user_id, path, method)} :
       \E E \in {rt_before_request(
                    Engine(get_request(started, t), registry, fingerprints, events),
                    payload, method, path)} :
          /\ ctx' = [started EXCEPT ![t] = E.ctx]
          /\ registry' = E.registry
          /\ fingerprints' = E.fingerprints
          /\ events' = E.events
    /\ nextRequest' = nextRequest + 1
    /\ last' = NoCall
    /\ UNCHANGED <<ignored_hosts, pc, rp, app, proc>>

\* flask_hooks._rt_teardown on task t
Teardown(t) ==
    /\ ctx[t] # NoCtx
    /\ ctx' = end_request(ctx, t)
    /\ last' = NoCall
    /\ UNCHANGED <<registry, events, fingerprints, ignored_hosts, nextRequest, pc, rp, app, proc>>

\* sqlalchemy_patch._before_flush on task t, for a session holding one new
\* (action "insert") or one modified (action "update") object
BeforeFlush(t, obj) ==
    /\ Len(events) < MaxEvents
    /\ \E E \in {process_instance(
                    Engine(get_request(ctx, t), registry, fingerprints, events),
                    obj, FlushAction(obj))} :
          /\ ctx' = [ctx EXCEPT ![t] = E.ctx]
          /\ registry' = E.registry
          /\ fingerprints' = E.fingerprints
          /\ events' = E.events
    /\ last' = NoCall
    /\ UNCHANGED <<ignored_hosts, nextRequest, pc, rp, app, proc>>

\* requests.sessions.Session.request as patched, called on task t
Request(t, method, url, kwargs, outcome) ==
    /\ Len(events) < MaxEvents
    /\ \E r \in {instrumented_request(
                    Engine(get_request(ctx, t), registry, fingerprints, events),
                    ignored_hosts, method, url, kwargs, outcome)} :
          /\ ctx' = [ctx EXCEPT ![t] = r.E.ctx]
          /\ registry' = r.E.registry
          /\ fingerprints' = r.E.fingerprints
          /\ events' = r.E.events
          /\ last' = LastCall(Call(method, url, kwargs), r.calls, r.outcome, r.seen)
    /\ UNCHANGED <<ignored_hosts, nextRequest, pc, rp, app, proc>>

Next ==
    \/ \E t \in Tasks, payload \in InboundPayloads :
            BeforeRequest(t, SessionUser(t), payload, "POST", "/signup")
    \/ \E t \in Tasks : Teardown(t)
    \/ \E t \in Tasks, obj \in Entities : BeforeFlush(t, obj)
    \/ \E t \in Tasks, url \in Urls, kwargs \in OutboundKwargs, outcome \in Outcomes :
            Request(t, "POST", url, kwargs, outcome)

Spec == Init /\ [][Next]_vars

-----------------------------------------------------------------------------
(* SpecRace: _rt_before_request as the interpreter runs it on concurrent    *)
(* threads.  Nothing in tracker.py or flask_hooks.py takes a lock, so       *)
(* another thread may run between any two statements; the steps below are   *)
(* the statements of register_input that read or write shared state.        *)

At(at, payload, items, tag) ==
    [at |-> at, payload |-> payload, items |-> items, tag |-> tag]

\* flask_hooks._rt_before_request up to its loop: start_request and
\* _extract_request_payload
RaceStart(t, payload) ==
    /\ pc[t] = Idle
    /\ ctx[t] = NoCtx
    /\ nextRequest < MaxRequests
    /\ Len(events) < MaxEvents
    /\ ctx' = start_request(ctx, t, nextRequest + 1, SessionUser(t), "/signup", "POST")
    /\ nextRequest' = nextRequest + 1
    /\ pc' = [pc EXCEPT ![t] = At("register_tag", payload, payload.items, NoCtx)]
    /\ UNCHANGED <<registry, events, fingerprints, ignored_hosts, last, rp, app, proc>>

\* register_input, tracker.py lines 34-37: ctx.register_tag for the next field
RaceRegisterTag(t) ==
    /\ pc[t].at = "register_tag"
    /\ pc[t].items # <<>>
    /\ LET key == Head(pc[t].items)[1]
           configured == key \in InputFieldNames
           r == register_tag(ctx[t], key,
                    IF configured THEN InputFieldConfig(key).category ELSE "unknown",
                    IF configured THEN InputFieldConfig(key).description
                                  ELSE "Form field " \o key,
                    Head(pc[t].items)[2].v, ctx[t].user_id,
                    HttpSource(ctx[t].method, ctx[t].path))
       IN /\ ctx' = [ctx EXCEPT ![t] = r.c]
          /\ pc' = [pc EXCEPT ![t] = At("check", @.payload, Tail(@.items), r.tag)]
    /\ UNCHANGED <<registry, events, fingerprints, ignored_hosts, nextRequest, last, rp, app, proc>>

\* GlobalRegistry.register, tracker.py line 18: the membership test
RaceCheck(t) ==
    /\ pc[t].at = "check"
    /\ pc' = [pc EXCEPT ![t].at =
                IF pc[t].tag.fingerprint \notin DOMAIN registry THEN "write"
                                                                 ELSE "upsert"]
    /\ UNCHANGED <<ctx, registry, events, fingerprints, ignored_hosts, nextRequest, last, rp, app, proc>>

\* GlobalRegistry.register, tracker.py line 19: the dict store
RaceWrite(t) ==
    /\ pc[t].at = "write"
    /\ registry' = (pc[t].tag.fingerprint :> pc[t].tag) @@ registry
    /\ pc' = [pc EXCEPT ![t].at = "upsert"]
    /\ UNCHANGED <<ctx, events, fingerprints, ignored_hosts, nextRequest, last, rp, app, proc>>

\* register_input, tracker.py line 49: storage.upsert_fingerprint (one sqlite
\* transaction), then the hook's loop goes on
RaceUpsert(t) ==
    /\ pc[t].at = "upsert"
    /\ fingerprints' = upsert_fingerprint(fingerprints, pc[t].tag, NoEvent)
    /\ pc' = [pc EXCEPT ![t].at = IF pc[t].items # <<>> THEN "register_tag"
                                                       ELSE "collect"]
    /\ UNCHANGED <<ctx, registry, events, ignored_hosts, nextRequest, last, rp, app, proc>>

\* flask_hooks._rt_before_request line 45: tracker.record_collection(payload);
\* its matched tags are the registry's own, which register leaves alone
RaceCollect(t) ==
    /\ pc[t].at = "collect"
    /\ \E E \in {record_collection(Engine(ctx[t], registry, fingerprints, events),
                                   pc[t].payload)} :
          /\ registry' = E.registry
          /\ fingerprints' = E.fingerprints
          /\ events' = E.events
    /\ pc' = [pc EXCEPT ![t] = [at |-> "handling"]]
    /\ UNCHANGED <<ctx, ignored_hosts, nextRequest, last, rp, app, proc>>

\* flask_hooks._rt_teardown
RaceTeardown(t) ==
    /\ pc[t].at = "handling"
    /\ ctx' = end_request(ctx, t)
    /\ pc' = [pc EXCEPT ![t] = Idle]
    /\ UNCHANGED <<registry, events, fingerprints, ignored_hosts, nextRequest, last, rp, app, proc>>

NextRace ==
    \/ \E t \in Tasks, payload \in InboundPayloads : RaceStart(t, payload)
    \/ \E t \in Tasks : RaceRegisterTag(t)
    \/ \E t \in Tasks : RaceCheck(t)
    \/ \E t \in Tasks : RaceWrite(t)
    \/ \E t \in Tasks : RaceUpsert(t)
    \/ \E t \in Tasks : RaceCollect(t)
    \/ \E t \in Tasks : RaceTeardown(t)

SpecRace == Init /\ [][NextRace]_vars

-----------------------------------------------------------------------------
(* SpecFault: the handlers of runtime_tracking over a store one of whose    *)
(* writes raises during the handler (fail_at = 0: none does).  What the     *)
(* statements before the raising one did stays done.  A behaviour is        *)
(* followed up to the first hook an exception leaves.                       *)

\* last after a hook: whether an exception left the hook, and how many times
\* the store write that raised had been attempted
Hooked(op, E) == [op |-> op, raised |-> E.raised, attempts |-> E.attempts]

\* an exception has left a hook
Faulted == last.op # "other" /\ last.raised

FaultEntities ==
    {Entity("User", [email |-> vEmail, currency |-> vConst], None),
     Entity("Expense", [amount |-> vDecimal], None)}

\* flask_hooks._rt_before_request on task t; an exception leaving it makes
\* flask answer the request with an error in place of the view's response
FaultBeforeRequest(t, user_id, payload, method, path, fail_at) ==
    /\ ~Faulted
    /\ ctx[t] = NoCtx
    /\ nextRequest < MaxRequests
    /\ Len(events) < MaxEvents
    /\ \E started \in {start_request(ctx, t, nextRequest + 1, user_id, path, method)} :
       \E E \in {rt_before_request(
                    FaultyEngine(Engine(get_request(started, t), registry,
                                        fingerprints, events), fail_at),
                    payload, method, path)} :
          /\ ctx' = [started EXCEPT ![t] = E.ctx]
          /\ registry' = E.registry
          /\ fingerprints' = E.fingerprints
          /\ events' = E.events
          /\ last' = Hooked("before_request", E)
    /\ nextRequest' = nextRequest + 1
    /\ UNCHANGED <<ignored_hosts, pc, rp, app, proc>>

\* sqlalchemy_patch._before_flush on task t; an exception leaving the
\* listener leaves session.flush(), and the write is not committed
FaultBeforeFlush(t, obj, fail_at) ==
    /\ ~Faulted
    /\ Len(events) < MaxEvents
    /\ \E E \in {process_instance(
                    FaultyEngine(Engine(get_request(ctx, t), registry,
                                        fingerprints, events), fail_at),
                    obj, FlushAction(obj))} :
          /\ ctx' = [ctx EXCEPT ![t] = E.ctx]
          /\ registry' = E.registry
          /\ fingerprints' = E.fingerprints
          /\ events' = E.events
          /\ last' = [obj |-> obj, committed |-> ~E.raised] @@ Hooked("flush", E)
    /\ UNCHANGED <<ignored_hosts, nextRequest, pc, rp, app, proc>>

\* requests.sessions.Session.request as patched, called on task t
FaultRequest(t, method, url, kwargs, outcome, fail_at) ==
    /\ ~Faulted
    /\ Len(events) < MaxEvents
    /\ \E r \in {instrumented_request(
                    FaultyEngine(Engine(get_request(ctx, t), registry,
                                        fingerprints, events), fail_at),
                    ignored_hosts, method, url, kwargs, outcome)} :
          /\ ctx' = [ctx EXCEPT ![t] = r.E.ctx]
          /\ registry' = r.E.registry
          /\ fingerprints' = r.E.fingerprints
          /\ events' = r.E.events
          /\ last' = LastCall(Call(method, url, kwargs), r.calls, r.outcome, r.seen)
                        @@ Hooked("request", r.E)
    /\ UNCHANGED <<ignored_hosts, nextRequest, pc, rp, app, proc>>

\* flask_hooks._rt_teardown on task t
FaultTeardown(t) ==
    /\ ~Faulted
    /\ ctx[t] # NoCtx
    /\ ctx' = end_request(ctx, t)
    /\ last' = NoCall
    /\ UNCHANGED <<registry, events, fingerprints, ignored_hosts, nextRequest, pc, rp, app, proc>>

NextFault ==
    \/ \E t \in Tasks, payload \in InboundPayloads, fail_at \in 0..MaxFailAt :
            FaultBeforeRequest(t, SessionUser(t), payload, "POST", "/signup", fail_at)
    \/ \E t \in Tasks : FaultTeardown(t)
    \/ \E t \in Tasks, obj \in FaultEntities, fail_at \in 0..MaxFailAt :
            FaultBeforeFlush(t, obj, fail_at)
    \/ \E t \in Tasks, url \in Urls, kwargs \in OutboundKwargs, outcome \in Outcomes, fail_at \in 0..MaxFailAt :
            FaultRequest(t, "POST", url, kwargs, outcome, fail_at)

SpecFault == Init /\ [][NextFault]_vars

-----------------------------------------------------------------------------
(* budget_tracker/runtime_tracking.py (ProvenanceTracker.log_sharing_event)  *)
(* and budget_tracker/provenance_utils.py.  Time is counted in days.         *)

\* runtime_tracking.DataTag, the attributes the sharing log reads
LegacyTag(identifier, data_type) == [identifier |-> identifier, data_type |-> data_type]

\* the orders in which iterating a set can yield its elements
Orders(S) ==
    {seq \in [1..Cardinality(S) -> S] : {seq[i] : i \in 1..Cardinality(S)} = S}

\* list(set([tag.identifier for tag in tags if tag])): the identifiers of
\* the tags, once each, in the order the set yields them
IdentifierLists(tags) == Orders({tags[i].identifier : i \in 1..Len(tags)})

\* log_sharing_event and _persist_sharing_event: the row added to
\* data_sharing_events
DataSharingEvent(event_id, timestamp, event_type, destination, tags, identifiers, user_id) ==
    [event_id |-> event_id, timestamp |-> timestamp, event_type |-> event_type,
     destination |-> destination, tags |-> tags, identifiers |-> identifiers,
     user_id |-> user_id]

\* DataSharingEvent.query.filter_by(user_id=user_id).all()
FilterByUser(rows, user_id) == SelectSeq(rows, LAMBDA e : e.user_id = user_id)

\* key = (event.event_type, event.destination, tuple(identifiers))
GroupKey(e) == <<e.event_type, e.destination, e.identifiers>>

RECURSIVE SharingCounts(_, _)

\* the loop of detect_suspicious_sharing over the events: sharing_counts as
\* the sequence of its values in insertion order
SharingCounts(evs, counts) ==
    IF evs = <<>> THEN counts
    ELSE LET e == Head(evs)
             known == \E i \in 1..Len(counts) : counts[i].key = GroupKey(e)
             opened == IF known THEN counts
                       ELSE Append(counts,
                                [key |-> GroupKey(e), event_type |-> e.event_type,
                                 destination |-> e.destination,
                                 identifiers |-> e.identifiers, count |-> 0,
                                 first_seen |-> e.timestamp,
                                 last_seen |-> e.timestamp, events |-> <<>>])
         IN SharingCounts(Tail(evs),
                [i \in 1..Len(opened) |->
                    IF opened[i].key = GroupKey(e)
                    THEN [opened[i] EXCEPT
                            !.count = @ + 1,
                            !.last_seen = IF @ >= e.timestamp THEN @ ELSE e.timestamp,
                            !.events = Append(@, e.event_id)]
                    ELSE opened[i]])

RECURSIVE SortedByCountDesc(_, _)

\* sorted(suspicious, key=lambda x: x['count'], reverse=True): stable, so
\* groups of equal count keep their order
SortedByCountDesc(groups, sorted) ==
    IF groups = <<>> THEN sorted
    ELSE LET x == Head(groups)
             k == Cardinality({i \in 1..Len(sorted) : sorted[i].count >= x.count})
         IN SortedByCountDesc(Tail(groups),
                SubSeq(sorted, 1, k) \o <<x>> \o SubSeq(sorted, k + 1, Len(sorted)))

\* if info['count'] >= threshold
Suspicious(info, threshold) == info.count >= threshold

\* detect_suspicious_sharing
detect_suspicious_sharing(rows, user_id, threshold) ==
    SortedByCountDesc(
        SelectSeq(SharingCounts(FilterByUser(rows, user_id), <<>>),
                  LAMBDA info : Suspicious(info, threshold)),
        <<>>)

RECURSIVE SortedByTimestampDesc(_, _)

\* order_by(DataSharingEvent.timestamp.desc())
SortedByTimestampDesc(rows, sorted) ==
    IF rows = <<>> THEN sorted
    ELSE LET x == Head(rows)
             k == Cardinality({i \in 1..Len(sorted) : sorted[i].timestamp >= x.timestamp})
         IN SortedByTimestampDesc(Tail(rows),
                SubSeq(sorted, 1, k) \o <<x>> \o SubSeq(sorted, k + 1, Len(sorted)))

\* get_sharing_events_for_user
get_sharing_events_for_user(rows, user_id, limit) ==
    LET found == SortedByTimestampDesc(FilterByUser(rows, user_id), <<>>)
    IN SubSeq(found, 1, IF Len(found) <= limit THEN Len(found) ELSE limit)

\* get_sst_summary: the events of the user from the last `days` days
\* (total_events; the breakdowns by type and destination are left out)
get_sst_summary(rows, now, user_id, days) ==
    [total_events |->
        Len(SelectSeq(FilterByUser(rows, user_id),
                      LAMBDA e : e.timestamp + days >= now))]

\* identifier=f"user_{user_id}"
OwnerIdentifier(user_id) == "user_" \o ToString(user_id)

\* export_provenance_report (the 'tags' entry, read from table data_tags, is
\* left out)
export_provenance_report(rows, now, user_id) ==
    [user_id |-> user_id,
     sharing_events |-> get_sharing_events_for_user(rows, user_id, export_limit),
     summary |-> get_sst_summary(rows, now, user_id, summary_days),
     suspicious_patterns |-> detect_suspicious_sharing(rows, user_id, default_threshold)]

-----------------------------------------------------------------------------
(* runtime_provenance: utils.py, tagging.py, the RequestContext *)

\* Settings.hash_salt (PROVENANCE_HASH_SALT, empty unless set)
hash_salt == ""

\* utils.hash_preview: the first 32 hex digits of sha256(salt + json.dumps(value)),
\* or of sha256(salt + str(value)) when json.dumps raised TypeError
\* (taken to be injective on the serialisations of the model)
hash_preview(value, salt) ==
    IF SortRaisesTypeError(value) THEN <<"sha256", salt, <<"str", PyRepr(value)>>>>
    ELSE <<"sha256", salt, JsonDumps(value)>>

\* the hex text of hash_preview(value, hash_salt), written as the text that
\* was hashed
HexDigest(value) == JsonDumps(value)[Len(JsonDumps(value))]

\* utils.short_preview of a scalar shorter than the limit: str(value)
short_preview(value) == PyStr(value)

\* type(value).__name__
TypeName(v) ==
    CASE v.kind = "str" -> "str"
      [] v.kind = "int" -> "int"
      [] v.kind = "obj" -> "Decimal"
      [] v.kind = "none" -> "NoneType"

RECURSIVE FlattenItemsDict(_, _), FlattenItemsList(_, _, _), flatten_items(_, _)

\* utils.flatten_items, the dict branch: "prefix.key", or the key alone
\* under an empty prefix
FlattenItemsDict(items, prefix) ==
    IF items = <<>> THEN <<>>
    ELSE flatten_items(Head(items)[2],
                       IF prefix # "" THEN prefix \o "." \o Head(items)[1]
                                      ELSE Head(items)[1])
            \o FlattenItemsDict(Tail(items), prefix)

\* utils.flatten_items, the list branch: "prefix[index]"
FlattenItemsList(items, prefix, index) ==
    IF items = <<>> THEN <<>>
    ELSE flatten_items(Head(items), prefix \o "[" \o ToString(index) \o "]")
            \o FlattenItemsList(Tail(items), prefix, index + 1)

\* utils.flatten_items: the sequence of <<path, leaf value>> it yields
flatten_items(data, prefix) ==
    CASE data.t = "dict" -> FlattenItemsDict(data.items, prefix)
      [] data.t = "list" -> FlattenItemsList(data.items, prefix, 0)
      [] OTHER -> <<<<prefix, data.v>>>>

\* tagging.TagRecord
TagRecord(request_id, source, field, tag, value_preview, value_hash, raw_type, metadata) ==
    [request_id |-> request_id, source |-> source, field |-> field, tag |-> tag,
     value_preview |-> value_preview, value_hash |-> value_hash,
     raw_type |-> raw_type, metadata |-> metadata]

\* TagManager.make_tag with the counter at index (next(self._counter) then
\* leaves it at index + 1); the request id is the number of the request
make_tag(index, request_id, source, field, value, metadata) ==
    TagRecord(request_id, source, field,
              ToString(request_id) \o ":" \o source \o ":" \o field \o ":" \o ToString(index),
              short_preview(value) \o " | sha256:" \o HexDigest(value),
              hash_preview(value, hash_salt), TypeName(value), metadata)

\* a context no token is attached to
NoToken == [token |-> "none"]

\* contextvars.Token as _CTX.set returns it: the value the variable held
Token(old_value) == [old_value |-> old_value]

\* runtime_provenance RequestContext.__init__ (field_tags and the hash cache
\* are indexes of tag_records and are read off it)
RPRequestContext(request_id) ==
    [request_id |-> request_id, tag_records |-> <<>>, status_code |-> None,
     token |-> NoToken]

\* RequestContext.register_tag
RPRegisterTag(c, tag_record) ==
    [c EXCEPT !.tag_records = Append(c.tag_records, tag_record)]

\* RequestContext.get_tags
get_tags(c, source, field) ==
    SelectSeq(c.tag_records, LAMBDA r : r.source = source /\ r.field = field)

\* RequestContext.tags_by_hash().get(value_hash, [])
tags_by_hash(c, value_hash) ==
    SelectSeq(c.tag_records, LAMBDA r : r.value_hash = value_hash)

\* RequestContext.attach_token
attach_token(c, token) == [c EXCEPT !.token = token]

\* RequestContext.reset on the variable of task t: _CTX.reset(token) puts
\* back the value the variable held when the token was made
RPReset(cs, t) ==
    IF cs[t].token # NoToken THEN [cs EXCEPT ![t] = cs[t].token.old_value] ELSE cs

-----------------------------------------------------------------------------
(* runtime_provenance: recorder.py.  Every method is one sqlite statement   *)
(* in its own transaction; when sqlite raises, the row is not written and   *)
(* the exception leaves the method.                                         *)

\* ProvenanceRecorder.record_request_start: INSERT OR REPLACE INTO requests
record_request_start(requests, request_id, method, path) ==
    Append(SelectSeq(requests, LAMBDA row : row.id # request_id),
           [id |-> request_id, method |-> method, path |-> path,
            user_id |-> NoUser, ended |-> FALSE, status_code |-> None,
            exception |-> "-"])

\* ProvenanceRecorder.record_request_end: UPDATE requests ... WHERE id = ?
record_request_end(requests, request_id, status_code, user_id, exception) ==
    [i \in 1..Len(requests) |->
        IF requests[i].id = request_id
        THEN [requests[i] EXCEPT !.status_code = status_code, !.ended = TRUE,
                                 !.user_id = user_id, !.exception = exception]
        ELSE requests[i]]

\* ProvenanceRecorder.record_data_event
record_data_event(rows, request_id, event_type, tag_record) ==
    Append(rows, [request_id |-> request_id, event_type |-> event_type,
                  tag |-> tag_record.tag, source |-> tag_record.source,
                  field |-> tag_record.field,
                  value_preview |-> tag_record.value_preview,
                  raw_type |-> tag_record.raw_type,
                  metadata |-> [index |-> tag_record.metadata.index,
                                value_hash |-> tag_record.value_hash]])

\* a storage event without a tag
NoTag == "-"
NoHash == <<>>

\* ProvenanceRecorder.record_storage_event
RPRecordStorageEvent(rows, request_id, operation, model, field, tag, value_preview, metadata) ==
    Append(rows, [request_id |-> request_id, operation |-> operation,
                  model |-> model, field |-> field, tag |-> tag,
                  value_preview |-> value_preview, metadata |-> metadata])

\* ProvenanceRecorder.record_share_event (tag_matches is stored joined by
\* commas; the row keeps the list)
RPRecordShareEvent(rows, request_id, tag_matches, destination, method, url, payload_preview, metadata) ==
    Append(rows, [request_id |-> request_id, tag_matches |-> tag_matches,
                  destination |-> destination, method |-> method, url |-> url,
                  payload_preview |-> payload_preview, metadata |-> metadata])

-----------------------------------------------------------------------------
(* runtime_provenance: instrumentation.py, the ingress hook *)

\* the flask request as the hook reads it: args and form are multidicts
\* (key -> list of values), json a payload tree or NoArg, cookies a dict
FlaskRequest(method, path, args, form, json, cookies) ==
    [method |-> method, path |-> path, args |-> args, form |-> form,
     json |-> json, cookies |-> cookies]

\* metadata={"index": index}, and the metadata of a tag made without one
IndexMetadata(index) == [index |-> <<index>>]
NoMetadata == [index |-> <<>>]

RECURSIVE MultiDictEntries(_, _), ValueEntries(_, _, _, _)

\* for index, value in enumerate(values)
ValueEntries(source, key, values, index) ==
    IF values = <<>> THEN <<>>
    ELSE <<[source |-> source, field |-> key, value |-> Head(values),
            metadata |-> IndexMetadata(index)]>>
            \o ValueEntries(source, key, Tail(values), index + 1)

\* for key in multidict: values = multidict.getlist(key)
MultiDictEntries(source, multidict) ==
    IF multidict = <<>> THEN <<>>
    ELSE ValueEntries(source, Head(multidict)[1], Head(multidict)[2], 0)
            \o MultiDictEntries(source, Tail(multidict))

\* for path, value in flatten_items(payload): field = path or "<root>"
JsonEntries(payload) ==
    IF payload = NoArg \/ (payload.t \in {"dict", "list"} /\ payload.items = <<>>)
    THEN <<>>
    ELSE [i \in 1..Len(flatten_items(payload, "")) |->
            [source |-> "json",
             field |-> IF flatten_items(payload, "")[i][1] # ""
                       THEN flatten_items(payload, "")[i][1] ELSE "<root>",
             value |-> flatten_items(payload, "")[i][2],
             metadata |-> NoMetadata]]

\* for key, value in request.cookies.items()
CookieEntries(cookies) ==
    [i \in 1..Len(cookies) |->
        [source |-> "cookie", field |-> cookies[i][1], value |-> cookies[i][2],
         metadata |-> NoMetadata]]

RECURSIVE TagEntries(_, _)

\* one turn of the loops of collect_and_tag_request_data for each entry:
\* make_tag, ctx.register_tag, recorder.record_data_event.  R carries the
\* context, the TagManager's counter and table data_events.
TagEntries(R, entries) ==
    IF entries = <<>> THEN R
    ELSE LET e == Head(entries)
             tag == make_tag(R.counter, R.ctx.request_id, e.source, e.field,
                             e.value, e.metadata)
         IN TagEntries([ctx |-> RPRegisterTag(R.ctx, tag),
                        counter |-> R.counter + 1,
                        data_events |-> record_data_event(R.data_events,
                                            R.ctx.request_id, "ingress", tag)],
                       Tail(entries))

\* collect_and_tag_request_data: query parameters, form data, JSON payload,
\* cookies, in that order; every field is tagged
collect_and_tag_request_data(R, request) ==
    TagEntries(R, MultiDictEntries("query", request.args)
                    \o MultiDictEntries("form", request.form)
                    \o JsonEntries(request.json)
                    \o CookieEntries(request.cookies))

-----------------------------------------------------------------------------
(* runtime_provenance: instrumentation.py, the before_flush listener *)

\* mapper.columns of the mapped classes, by column key
MapperColumns(class) ==
    IF class = "User" THEN <<"id", "email", "currency">> ELSE <<"id", "amount">>

\* getattr(obj, field)
GetAttr(obj, field) == IF field = "id" THEN obj.id ELSE obj.attrs[field]

RECURSIVE LogColumns(_, _, _, _, _)

\* the loop of log_model_event over the columns: a column holding None is
\* skipped; the tags of the context are looked up by field name under
\* sources form, query, json and, when none bears the name, by the hash of
\* the value; the first one found is the row's tag.
LogColumns(c, rows, obj, operation, columns) ==
    IF columns = <<>> THEN rows
    ELSE LET field == Head(columns)
             value == GetAttr(obj, field)
             named == get_tags(c, "form", field) \o get_tags(c, "query", field)
                        \o get_tags(c, "json", field)
             tag_records == IF named # <<>> THEN named
                            ELSE tags_by_hash(c, hash_preview(value, hash_salt))
         IN IF value = None
            THEN LogColumns(c, rows, obj, operation, Tail(columns))
            ELSE LogColumns(c,
                    RPRecordStorageEvent(rows, c.request_id, operation, obj.class, field,
                        IF tag_records # <<>> THEN tag_records[1].tag ELSE NoTag,
                        short_preview(value),
                        [value_hash |-> IF tag_records # <<>>
                                        THEN tag_records[1].value_hash ELSE NoHash,
                         sources |-> [i \in 1..Len(tag_records) |-> tag_records[i].source]]),
                    obj, operation, Tail(columns))

\* log_model_event
log_model_event(c, rows, obj, operation) ==
    LogColumns(c, rows, obj, operation, MapperColumns(obj.class))

\* before_flush for one pending object: nothing without a context
before_flush(c, rows, obj) ==
    IF c = NoCtx THEN rows ELSE log_model_event(c, rows, obj, FlushAction(obj))

-----------------------------------------------------------------------------
(* runtime_provenance: instrumentation.py, the wrapped requests client *)

\* bool(value) of a keyword argument: given, and not an empty dict or list
Truthy(arg) ==
    arg # NoArg /\ (arg.t \in {"dict", "list"} => arg.items # <<>>)

\* extract_payload_values
extract_payload_values(kwargs) ==
    Dict((IF Truthy(kwargs.params) THEN <<<<"params", kwargs.params>>>> ELSE <<>>)
      \o (IF Truthy(kwargs.json) THEN <<<<"json", kwargs.json>>>> ELSE <<>>)
      \o (IF Truthy(kwargs.data) THEN <<<<"data", kwargs.data>>>> ELSE <<>>))

RECURSIVE AddTags(_, _), MatchLeaves(_, _, _)

\* matched[tag_record.tag] = None for each record: a dict keeps a key once,
\* at the place it first came in
AddTags(matched, tag_records) ==
    IF tag_records = <<>> THEN matched
    ELSE AddTags(IF \E i \in 1..Len(matched) : matched[i] = Head(tag_records).tag
                 THEN matched ELSE Append(matched, Head(tag_records).tag),
                 Tail(tag_records))

\* the loop of match_tags over the flattened payload
MatchLeaves(c, leaves, matched) ==
    IF leaves = <<>> THEN matched
    ELSE MatchLeaves(c, Tail(leaves),
            AddTags(matched, tags_by_hash(c, hash_preview(Head(leaves)[2], hash_salt))))

\* match_tags: the tags of the CURRENT context whose value hash is the hash
\* of a leaf of the payload
match_tags(c, payload) ==
    IF payload.items = <<>> THEN <<>>
    ELSE MatchLeaves(c, flatten_items(payload, ""), <<>>)

\* short_preview(payload_candidates, 512): json.dumps(sort_keys=True,
\* default=str) of the dict, its keys in sorted order (the payloads of the
\* model list the keys of their inner dicts sorted and stay under the limit)
PayloadPreview(kwargs) ==
    JsonText(Dict((IF Truthy(kwargs.data) THEN <<<<"data", kwargs.data>>>> ELSE <<>>)
               \o (IF Truthy(kwargs.json) THEN <<<<"json", kwargs.json>>>> ELSE <<>>)
               \o (IF Truthy(kwargs.params) THEN <<<<"params", kwargs.params>>>> ELSE <<>>)))

\* kwargs.get("headers", {}).get("Host", "")
Destination(kwargs) ==
    IF kwargs.headers # NoArg
          /\ \E i \in 1..Len(kwargs.headers.items) : kwargs.headers.items[i][1] = "Host"
    THEN PyStr(kwargs.headers.items[CHOOSE i \in 1..Len(kwargs.headers.items) :
                    kwargs.headers.items[i][1] = "Host"][2].v)
    ELSE ""

\* wrapped_request on context c: with a context the share event is written
\* first, and when that write raises the exception leaves wrapped_request
\* before the underlying client is called; without a context nothing is
\* written.  outcome is what original_request does.
wrapped_request(c, rows, method, url, kwargs, outcome, raises) ==
    LET call == [method |-> method, url |-> url, kwargs |-> kwargs]
    IN IF c = NoCtx
       THEN [share_events |-> rows, calls |-> <<call>>, outcome |-> outcome,
             seen |-> outcome]
       ELSE IF raises
       THEN [share_events |-> rows, calls |-> <<>>, outcome |-> outcome,
             seen |-> Raise("sqlite3.OperationalError")]
       ELSE [share_events |->
                RPRecordShareEvent(rows, c.request_id,
                    match_tags(c, extract_payload_values(kwargs)),
                    Destination(kwargs), method, url, PayloadPreview(kwargs),
                    [has_body |-> kwargs.data # NoArg \/ kwargs.json # NoArg,
                     has_params |-> kwargs.params # NoArg]),
             calls |-> <<call>>, outcome |-> outcome, seen |-> outcome]

-----------------------------------------------------------------------------
(* SpecRP: the runtime_provenance hooks as actions.  raises says that the   *)
(* recorder's sqlite write of the hook raises.                              *)

RPInboundRequests ==
    {FlaskRequest("POST", "/signup", <<>>,
                  <<<<"email", <<vEmail>>>>, <<"income", <<vIncome>>>>>>,
                  NoArg, <<<<"sid", vConst>>>>),
     FlaskRequest("POST", "/api/profile", <<<<"q", <<vIncome>>>>>>, <<>>,
                  Dict(<<<<"profile", Dict(<<<<"email", Leaf(vConst)>>>>)>>>>),
                  <<>>)}

RPOutboundKwargs ==
    {Kwargs(NoArg, NoArg, NoArg, NoArg),
     Kwargs(Dict(<<<<"ids", List(<<Leaf(vEmail)>>)>>,
                  <<"profile", Dict(<<<<"income", Leaf(vDecimal)>>>>)>>>>),
            NoArg, NoArg,
            Dict(<<<<"Host", Leaf(Str("api.partner.com"))>>>>))}

RPEntities ==
    {Entity("User", [email |-> vEmail, currency |-> vConst], None),
     Entity("Expense", [amount |-> vDecimal], Int("1"))}

RPUrl == Url("https", "api.partner.com", "/score")

NoException == "-"
Exceptions == {NoException, "ValueError('bad input')"}

\* the rows the recorder holds in storage_events and share_events
RPWritten == Len(rp.storage_events) + Len(rp.share_events)

\* _runtime_provenance_before_request on task t: the context is set before
\* record_request_start is called
RPBeforeRequest(t, request, raises) ==
    /\ ~rp.active[t]
    /\ nextRequest < MaxRequests
    /\ LET request_id == nextRequest + 1
           c == attach_token(RPRequestContext(request_id), Token(rp.ctx[t]))
           R == collect_and_tag_request_data(
                    [ctx |-> c, counter |-> rp.counter,
                     data_events |-> rp.data_events], request)
       IN /\ rp' = IF raises
                   THEN [rp EXCEPT !.ctx[t] = c, !.active[t] = TRUE]
                   ELSE [rp EXCEPT !.ctx[t] = R.ctx, !.active[t] = TRUE,
                            !.requests = record_request_start(rp.requests,
                                            request_id, request.method, request.path),
                            !.data_events = R.data_events,
                            !.counter = R.counter]
          /\ nextRequest' = request_id
    /\ last' = NoCall
    /\ UNCHANGED <<ctx, registry, events, fingerprints, ignored_hosts, pc, app, proc>>

\* _runtime_provenance_after_request on task t
RPAfterRequest(t, status_code) ==
    /\ rp.active[t]
    /\ rp.ctx[t] # NoCtx
    /\ rp.ctx[t].status_code = None
    /\ rp' = [rp EXCEPT !.ctx[t].status_code = status_code]
    /\ last' = NoCall
    /\ UNCHANGED <<ctx, registry, events, fingerprints, ignored_hosts, nextRequest, pc, app, proc>>

\* _runtime_provenance_teardown on task t: record_request_end, then
\* ctx.reset(_CTX); when record_request_end raises, the reset is not reached
RPTeardown(t, exception, raises) ==
    /\ rp.active[t]
    /\ LET c == rp.ctx[t]
           status_code == IF c.status_code # None THEN c.status_code
                          ELSE IF exception # NoException THEN None
                          ELSE Int("200")
       IN rp' = IF c = NoCtx \/ raises
                THEN [rp EXCEPT !.active[t] = FALSE]
                ELSE [rp EXCEPT !.active[t] = FALSE,
                        !.requests = record_request_end(rp.requests, c.request_id,
                                        status_code, SessionUser(t), exception),
                        !.ctx = RPReset(rp.ctx, t)]
    /\ last' = NoCall
    /\ UNCHANGED <<ctx, registry, events, fingerprints, ignored_hosts, nextRequest, pc, app, proc>>

\* before_flush on task t for one pending object, in or out of a request
RPBeforeFlush(t, obj, raises) ==
    /\ RPWritten < RPMaxRows
    /\ rp' = IF raises THEN rp
             ELSE [rp EXCEPT !.storage_events =
                        before_flush(rp.ctx[t], rp.storage_events, obj)]
    /\ last' = NoCall
    /\ UNCHANGED <<ctx, registry, events, fingerprints, ignored_hosts, nextRequest, pc, app, proc>>

\* requests.Session.request as wrapped, called on task t, in or out of a
\* request
RPRequest(t, method, url, kwargs, outcome, raises) ==
    /\ RPWritten < RPMaxRows
    /\ \E r \in {wrapped_request(rp.ctx[t], rp.share_events, method, url,
                                 kwargs, outcome, raises)} :
          /\ rp' = [rp EXCEPT !.share_events = r.share_events]
          /\ last' = LastCall(Call(method, url, kwargs), r.calls, r.outcome, r.seen)
    /\ UNCHANGED <<ctx, registry, events, fingerprints, ignored_hosts, nextRequest, pc, app, proc>>

NextRP ==
    \/ \E t \in Tasks, request \in RPInboundRequests, raises \in BOOLEAN :
            RPBeforeRequest(t, request, raises)
    \/ \E t \in Tasks : RPAfterRequest(t, Int("200"))
    \/ \E t \in Tasks, exception \in Exceptions, raises \in BOOLEAN :
            RPTeardown(t, exception, raises)
    \/ \E t \in Tasks, obj \in RPEntities, raises \in BOOLEAN : RPBeforeFlush(t, obj, raises)
    \/ \E t \in Tasks, kwargs \in RPOutboundKwargs, outcome \in Outcomes, raises \in BOOLEAN :
            RPRequest(t, "POST", RPUrl, kwargs, outcome, raises)

SpecRP == Init /\ [][NextRP]_vars

-----------------------------------------------------------------------------
(* SpecDetect: the sharing log of budget_tracker/runtime_tracking.py and the *)
(* queries of provenance_utils.py over it.                                   *)

AppUsers == {1, 2}

\* the tags found on the data of an outbound call
LegacyTagLists ==
    { <<LegacyTag("user_1", "email")>>,
      <<LegacyTag("user_1", "email"), LegacyTag("user_2", "income")>> }

Destinations == {"https://api.mixpanel.com/track"}

\* log_sharing_event, called by tracked_post and the other wrappers: the
\* row takes the clock, the user of the session and the identifiers of the
\* tags in the order the set yields them
LogSharingEvent(session_user, destination, tags, identifiers) ==
    /\ Len(app.data_sharing_events) < MaxSharing
    /\ identifiers \in IdentifierLists(tags)
    /\ app' = [app EXCEPT !.data_sharing_events =
                 Append(@, DataSharingEvent(Len(@) + 1, app.now, "api_call",
                                            destination, tags, identifiers,
                                            session_user))]
    /\ UNCHANGED <<ctx, registry, events, fingerprints, ignored_hosts, nextRequest, last, pc, rp, proc>>

\* datetime.utcnow() moves on
Tick ==
    /\ app.now < MaxNow
    /\ app' = [app EXCEPT !.now = @ + 1]
    /\ UNCHANGED <<ctx, registry, events, fingerprints, ignored_hosts, nextRequest, last, pc, rp, proc>>

\* a call of detect_suspicious_sharing(user_id, threshold)
Detect(user_id, threshold) ==
    /\ last' = [op |-> "detect", user_id |-> user_id, threshold |-> threshold,
                now |-> app.now,
                groups |-> detect_suspicious_sharing(app.data_sharing_events,
                                                     user_id, threshold)]
    /\ UNCHANGED <<ctx, registry, events, fingerprints, ignored_hosts, nextRequest, pc, rp, app, proc>>

\* a call of export_provenance_report(user_id)
Export(user_id) ==
    /\ last' = [op |-> "export", user_id |-> user_id,
                report |-> export_provenance_report(app.data_sharing_events,
                                                    app.now, user_id)]
    /\ UNCHANGED <<ctx, registry, events, fingerprints, ignored_hosts, nextRequest, pc, rp, app, proc>>

NextDetect ==
    \/ \E session_user \in AppUsers, destination \in Destinations,
          tags \in LegacyTagLists :
          \E identifiers \in IdentifierLists(tags) :
             LogSharingEvent(session_user, destination, tags, identifiers)
    \/ Tick
    \/ \E user_id \in AppUsers, threshold \in 1..MaxThreshold :
          Detect(user_id, threshold)
    \/ \E user_id \in AppUsers : Export(user_id)

SpecDetect == Init /\ [][NextDetect]_vars

-----------------------------------------------------------------------------
(* SpecFingerprint: create_fingerprint and hash_preview applied to dicts.    *)

Keys == {StrKey("a"), StrKey("b"), IntKey("1")}

Scalars == {Int("1"), Int("2")}

\* the dicts of at most MaxKeys items with scalar values
FlatMaps ==
    UNION {{Map([i \in 1..n |-> Item(keys[i], values[i])]) :
              keys \in {ks \in [1..n -> Keys] :
                          \A i, j \in 1..n : ks[i] = ks[j] => i = j},
              values \in [1..n -> Scalars]} : n \in 1..MaxKeys}

RECURSIVE MapValues(_)

\* the dicts above and the dicts that hold one of them under a key, down to
\* the given depth
MapValues(depth) ==
    IF depth <= 1 THEN FlatMaps
    ELSE FlatMaps \cup {Map(<<Item(key, inner)>>) :
                           key \in Keys, inner \in MapValues(depth - 1)}

RECURSIVE SameContent(_, _)

\* a == b in Python: two dicts are equal when they hold the same keys with
\* equal values, whatever the order of insertion
SameContent(a, b) ==
    IF a.kind = "dict" /\ b.kind = "dict"
    THEN /\ Len(a.items) = Len(b.items)
         /\ \A i \in 1..Len(a.items) :
               \E j \in 1..Len(b.items) :
                  /\ a.items[i].key = b.items[j].key
                  /\ SameContent(a.items[i].value, b.items[j].value)
    ELSE a.kind # "dict" /\ b.kind # "dict" /\ a = b

\* the two functions called on two values (one call in a behaviour: the
\* functions keep no state)
Fingerprint(a, b) ==
    /\ last.op # "fingerprint"
    /\ last' = [op |-> "fingerprint", a |-> a, b |-> b,
                fingerprint_a |-> create_fingerprint(a),
                fingerprint_b |-> create_fingerprint(b),
                hash_a |-> hash_preview(a, hash_salt),
                hash_b |-> hash_preview(b, hash_salt)]
    /\ UNCHANGED <<ctx, registry, events, fingerprints, ignored_hosts, nextRequest, pc, rp, app, proc>>

NextFingerprint ==
    \E a \in MapValues(MaxDepth), b \in MapValues(MaxDepth) : Fingerprint(a, b)

SpecFingerprint == Init /\ [][NextFingerprint]_vars

-----------------------------------------------------------------------------
(* SpecApp: runtime_tracking from import on.  init_runtime_tracking may be   *)
(* called any number of times; the hooks act only where bootstrap installed  *)
(* them, and the audit endpoints answer once the blueprint is registered.    *)

AuditToken == "s3cret"

\* the query arguments of an audit request
AuditArgs(audit_token, limit, event_type) ==
    [audit_token |-> audit_token, limit |-> limit, event_type |-> event_type]

\* an audit request: endpoint, X-Audit-Token header, query arguments
AuditRequests ==
    {<<"events", "", AuditArgs("", "", "")>>,
     <<"events", AuditToken, AuditArgs("", "1", "")>>,
     <<"events", "guess", AuditArgs(AuditToken, "", "")>>,
     <<"events", "", AuditArgs(AuditToken, "", "DATA_SHARE")>>,
     <<"fingerprints", "", AuditArgs("", "", "")>>,
     <<"fingerprints", AuditToken, AuditArgs("", "", "")>>,
     <<"status", "guess", AuditArgs("", "", "")>>,
     <<"status", "", AuditArgs(AuditToken, "", "")>>}

AppPayload == Dict(<<<<"email", Leaf(vEmail)>>>>)
AppEntity == Entity("User", [email |-> vEmail, currency |-> vConst], None)
AppKwargs == Kwargs(Dict(<<<<"ids", List(<<Leaf(vEmail)>>)>>>>), NoArg, NoArg, NoArg)

\* request.values of an audit request: the query arguments given
AuditPayload(args) ==
    Dict((IF args.audit_token # "" THEN <<<<"audit_token", Leaf(Str(args.audit_token))>>>> ELSE <<>>)
      \o (IF args.limit # "" THEN <<<<"limit", Leaf(Str(args.limit))>>>> ELSE <<>>)
      \o (IF args.event_type # "" THEN <<<<"event_type", Leaf(Str(args.event_type))>>>> ELSE <<>>))

AuditPath(endpoint) == "/runtime-audit/" \o endpoint

\* last after an audit request
LastAudit(endpoint, header, args, expected, response) ==
    [op |-> "audit", endpoint |-> endpoint, header |-> header, args |-> args,
     expected |-> expected, response |-> response]

\* last after a call of init_runtime_tracking
LastInit == [op |-> "init"]

InitApp ==
    /\ ctx = [t \in Tasks |-> NoCtx]
    /\ registry = <<>>
    /\ events = <<>>
    /\ fingerprints = <<>>
    /\ ignored_hosts = IgnoredHosts
    /\ nextRequest = 0
    /\ last = NoCall
    /\ pc = [t \in Tasks |-> Idle]
    /\ rp = RPInitial
    /\ app = AppInitial
    /\ proc = ProcImported

\* a call of init_runtime_tracking(app=..., db=..., config_path=...).  A new
\* RuntimeTracker starts with an empty GlobalRegistry
InitRuntimeTracking(with_app, with_db, audit_token) ==
    /\ proc' = init_runtime_tracking(proc, with_app, with_db, audit_token)
    /\ registry' = IF proc'.TRACKER = proc.TRACKER THEN registry ELSE <<>>
    /\ last' = LastInit
    /\ UNCHANGED <<ctx, events, fingerprints, ignored_hosts, nextRequest, pc, rp, app>>

\* an inbound request of the application reaches _rt_before_request
AppBeforeRequest(t, payload) ==
    /\ Len(proc.before_request_funcs) = 1
    /\ BeforeRequest(t, SessionUser(t), payload, "POST", "/signup")

\* _rt_teardown
AppTeardown(t) ==
    /\ Len(proc.before_request_funcs) = 1
    /\ Teardown(t)

\* a flush of the session reaches _before_flush
AppBeforeFlush(t, obj) ==
    /\ Len(proc.before_flush) = 1
    /\ BeforeFlush(t, obj)

\* Session.request as patch_requests left it
AppRequest(t, url, kwargs, outcome) ==
    /\ Len(proc.wrappers) = 1
    /\ Request(t, "POST", url, kwargs, outcome)

\* Session.request before patch_requests: the library's own
PlainRequest(t, url, kwargs, outcome) ==
    /\ proc.wrappers = <<>>
    /\ last' = LastCall(Call("POST", url, kwargs), <<Call("POST", url, kwargs)>>,
                        outcome, outcome)
    /\ UNCHANGED <<ctx, registry, events, fingerprints, ignored_hosts, nextRequest, pc, rp, app, proc>>

\* a GET on /runtime-audit/<endpoint>, served on task t from start to end:
\* _rt_before_request (the app's hook runs before the blueprint's), then
\* _check_access and the view, then _rt_teardown
AuditRequest(t, endpoint, header, args) ==
    /\ proc.blueprint # NoTracker
    /\ ctx[t] = NoCtx
    /\ nextRequest < MaxRequests
    /\ Len(events) < MaxEvents
    /\ \E started \in {start_request(ctx, t, nextRequest + 1, SessionUser(t),
                                     AuditPath(endpoint), "GET")} :
       \E E \in {rt_before_request(
                    Engine(get_request(started, t), registry, fingerprints, events),
                    AuditPayload(args), "GET", AuditPath(endpoint))} :
          /\ registry' = E.registry
          /\ fingerprints' = E.fingerprints
          /\ events' = E.events
          /\ last' = LastAudit(endpoint, header, args, proc.configs[proc.blueprint],
                               audit_view(proc.configs[proc.blueprint], E,
                                          endpoint, header, args))
    /\ ctx' = ctx
    /\ nextRequest' = nextRequest + 1
    /\ UNCHANGED <<ignored_hosts, pc, rp, app, proc>>

NextApp ==
    \/ \E with_app \in BOOLEAN, with_db \in BOOLEAN, audit_token \in {NoAuditToken, AuditToken} :
            InitRuntimeTracking(with_app, with_db, audit_token)
    \/ \E t \in Tasks : AppBeforeRequest(t, AppPayload)
    \/ \E t \in Tasks : AppTeardown(t)
    \/ \E t \in Tasks : AppBeforeFlush(t, AppEntity)
    \/ \E t \in Tasks, url \in Urls : AppRequest(t, url, AppKwargs, Response(Int("200")))
    \/ \E t \in Tasks, url \in Urls : PlainRequest(t, url, AppKwargs, Response(Int("200")))
    \/ \E t \in Tasks, r \in AuditRequests : AuditRequest(t, r[1], r[2], r[3])

SpecApp == InitApp /\ [][NextApp]_vars

-----------------------------------------------------------------------------
(* Reading the audit store *)

EventIds == 1..Len(events)

HasKey(dict, key) == \E i \in 1..Len(dict.items) : dict.items[i][1] = key
Get(dict, key) ==
    dict.items[CHOOSE i \in 1..Len(dict.items) : dict.items[i][1] = key][2]

\* the fingerprints of the leaf values of a stored payload
LeafFingerprints(payload) ==
    {create_fingerprint(flatten_payload(payload)[i][2]) :
        i \in 1..Len(flatten_payload(payload))}

MatchedFingerprints(e) ==
    {e.matched_tags[k].fingerprint : k \in 1..Len(e.matched_tags)}

\* the field -> value dict of a DATA_STORAGE event
StoredFields(e) == Get(e.payload, "fields")

\* the fingerprints a DATA_COLLECTION event shows to have come in
InboundFingerprints(e) ==
    IF e.event_type = "DATA_COLLECTION" THEN LeafFingerprints(e.payload) ELSE {}

\* the fingerprints a DATA_STORAGE event shows to have been written to a
\* column configured as PII
PiiFingerprints(e) ==
    IF e.event_type = "DATA_STORAGE"
    THEN {create_fingerprint(StoredFields(e).items[i][2].v) :
            i \in {i \in 1..Len(StoredFields(e).items) :
                    /\ ModelFieldConfig(e.actor, StoredFields(e).items[i][1]).pii
                    /\ StoredFields(e).items[i][2].v # None}}
    ELSE {}

\* the last row of table events
LastEvent == events[Len(events)]

OnIgnoreList(url) == url.host \in ignored_hosts

\* runtime_provenance: the requests table requests shows to have ended
RPEndedRequests ==
    {rp.requests[i].id : i \in {i \in 1..Len(rp.requests) : rp.requests[i].ended}}

\* runtime_provenance: the value hashes of the tags table data_events shows
\* to have been registered at ingress by requests that have ended
RPHashesOfEnded ==
    {rp.data_events[i].metadata.value_hash :
        i \in {i \in 1..Len(rp.data_events) :
                rp.data_events[i].request_id \in RPEndedRequests}}

\* runtime_provenance: the value hash table data_events holds for a tag
RPTagHash(tag) ==
    rp.data_events[CHOOSE i \in 1..Len(rp.data_events) :
                        rp.data_events[i].tag = tag].metadata.value_hash

\* runtime_provenance: the hashes of the leaf values of an outbound call's
\* params, json and data
RPLeafHashes(kwargs) ==
    {hash_preview(flatten_items(extract_payload_values(kwargs), "")[i][2], hash_salt) :
        i \in 1..Len(flatten_items(extract_payload_values(kwargs), ""))}

-----------------------------------------------------------------------------
(* Claims *)

\* C1: within one request, a storage write whose email column equals the
\* value the ingress hook tagged under inbound field email records a
\* DATA_STORAGE event whose matched_tags holds the ingress tag (field
\* "email", HTTP source).
C1_StorageEventHasIngressTag ==
    \A i, j \in EventIds :
        (/\ i < j
         /\ events[i].event_type = "DATA_COLLECTION"
         /\ events[j].event_type = "DATA_STORAGE"
         /\ events[i].request_id = events[j].request_id
         /\ HasKey(events[i].payload, "email")
         /\ HasKey(StoredFields(events[j]), "email")
         /\ Get(events[i].payload, "email") = Get(StoredFields(events[j]), "email"))
        => \E k \in 1..Len(events[j].matched_tags) :
              /\ events[j].matched_tags[k].fingerprint =
                    create_fingerprint(Get(events[i].payload, "email").v)
              /\ events[j].matched_tags[k].field = "email"
              /\ events[j].matched_tags[k].source = HttpSource("POST", "/signup")

\* C2: an outbound call to a host off the ignore-list whose JSON body has a
\* leaf value registered before records exactly one DATA_SHARE event, for
\* that url, with matched_tags not empty.
C2_OneShareEventWithMatch ==
    [][(/\ last'.op = "request"
        /\ ~OnIgnoreList(last'.call.url)
        /\ last'.call.kwargs.json # NoArg
        /\ LeafFingerprints(last'.call.kwargs.json) \cap DOMAIN fingerprints # {})
       => /\ Len(events') = Len(events) + 1
          /\ SubSeq(events', 1, Len(events)) = events
          /\ events'[Len(events')].event_type = "DATA_SHARE"
          /\ events'[Len(events')].target = last'.call.url
          /\ events'[Len(events')].matched_tags # <<>>]_vars

C2_Witness ==
    /\ last.op = "request"
    /\ ~OnIgnoreList(last.call.url)
    /\ last.call.kwargs.json # NoArg
    /\ LastEvent.event_type = "DATA_SHARE"
    /\ LeafFingerprints(last.call.kwargs.json) \cap MatchedFingerprints(LastEvent) # {}

\* C3 as claimed: a value that never came in as an inbound request field has
\* no tag in any event's matched_tags.
C3_OnlyInboundValuesMatched ==
    \A v \in AppValues \cup InboundValues :
        (\A i \in EventIds :
            events[i].event_type = "DATA_COLLECTION"
                => \A n \in 1..Len(events[i].payload.items) :
                        events[i].payload.items[n][2] # Leaf(v))
        => \A j \in EventIds : create_fingerprint(v) \notin MatchedFingerprints(events[j])

\* C3 amended: every tag in an event's matched_tags has the fingerprint of a
\* value that came in as an inbound request field, or was written to a PII
\* column of a tracked entity, in that event or an earlier one.
C3_MatchedValuesWereInboundOrPii ==
    \A j \in EventIds : \A fp \in MatchedFingerprints(events[j]) :
        \E i \in 1..j : fp \in InboundFingerprints(events[i]) \cup PiiFingerprints(events[i])

C3_Witness ==
    \E j \in EventIds :
        /\ create_fingerprint(vConst) \in MatchedFingerprints(events[j])
        /\ \A i \in EventIds : create_fingerprint(vConst) \notin InboundFingerprints(events[i])

\* C4: a tag registered during a request that has ended stays matchable: an
\* outbound request made later, in another request or outside any, whose
\* payload holds the same value records a share event whose tag_matches
\* holds a tag of that value's hash (the call having gone through to the
\* underlying client, so the recorder did not raise).
C4_TagMatchableAfterRequest ==
    [][(last'.op = "request" /\ last'.calls # <<>>)
        => \A h \in RPHashesOfEnded \cap RPLeafHashes(last'.call.kwargs) :
              /\ Len(rp'.share_events) = Len(rp.share_events) + 1
              /\ \E k \in 1..Len(rp'.share_events[Len(rp'.share_events)].tag_matches) :
                    RPTagHash(rp'.share_events[Len(rp'.share_events)].tag_matches[k]) = h]_vars

\* C5: the registry is append-only under every interleaving of concurrent
\* register calls: once a fingerprint maps to a tag, no step removes or
\* replaces that mapping.
C5_RegistryAppendOnly ==
    [][\A fp \in DOMAIN registry :
            fp \in DOMAIN registry' /\ registry'[fp] = registry[fp]]_vars

\* C6: two requests in progress at once never hold the same context, and
\* every tag in a request's context stems from that request's own ingress
\* or storage writes; what another request registered is reachable only
\* through the registry.
C6_ContextNotShared ==
    \A b \in Tasks :
        ctx[b] # NoCtx =>
            /\ \A a \in Tasks \ {b} :
                    ctx[a] # NoCtx => ctx[a].request_id # ctx[b].request_id
            /\ ctx[b].user_id = SessionUser(b)
            /\ \A fp \in DOMAIN ctx[b].tags_by_fingerprint :
                    \E i \in EventIds :
                        /\ events[i].request_id = ctx[b].request_id
                        /\ fp \in InboundFingerprints(events[i])
                                    \cup PiiFingerprints(events[i])

C6_Witness ==
    /\ ctx["t1"] # NoCtx
    /\ ctx["t2"] # NoCtx
    /\ \E fp \in DOMAIN ctx["t1"].tags_by_fingerprint :
            /\ fp \notin DOMAIN ctx["t2"].tags_by_fingerprint
            /\ fp \in DOMAIN registry
            /\ LastEvent.request_id = ctx["t2"].request_id
            /\ fp \in MatchedFingerprints(LastEvent)

\* C7: after a request has ended, no context is active on its task, whether
\* or not the handler or a step of the instrumentation raised.
C7_NoContextAfterRequestEnd ==
    \A t \in Tasks : ~rp.active[t] => rp.ctx[t] = NoCtx

\* C8: every outbound call reaches the underlying client exactly once with
\* the caller's arguments, and a response it returns is what the caller gets,
\* ignore-listed hosts included.
C8_CallerGetsResponse ==
    last.op = "request" =>
        /\ last.calls = <<last.call>>
        /\ last.outcome.kind = "return" => last.seen = last.outcome

\* C9: when the underlying call raises, the caller sees that exception,
\* whatever the host, and the DATA_SHARE event is recorded with no response
\* status.
C9_ErrorReachesCaller ==
    (last.op = "request" /\ last.outcome.kind = "raise") =>
        /\ last.seen = last.outcome
        /\ events # <<>>
        /\ LastEvent.event_type = "DATA_SHARE"
        /\ LastEvent.target = last.call.url
        /\ Get(LastEvent.payload, "response_status") = Leaf(None)

\* C10: an outbound call to a host on the ignore-list leaves table events and
\* table fingerprints as they were.
C10_IgnoredHostRecordsNothing ==
    [][(last'.op = "request" /\ OnIgnoreList(last'.call.url))
        => (events' = events /\ fingerprints' = fingerprints)]_vars

C10_Witness ==
    /\ last.op = "request"
    /\ OnIgnoreList(last.call.url)
    /\ last.call.kwargs.json # NoArg
    /\ LeafFingerprints(last.call.kwargs.json) \cap DOMAIN fingerprints # {}
    /\ events # <<>>

\* C11: an exception raised while the before_flush listener processes an
\* entity is swallowed: whatever the store does, the flush goes on and the
\* write is committed.
C11_FlushAlwaysCommits ==
    last.op = "flush" => last.committed

\* C12: a store write that fails is attempted exactly once more, and the
\* error never leaves the hook into the wrapped operation (request
\* handling, flush, outbound call).
C12_StoreErrorRetriedNeverPropagates ==
    (last.op # "other" /\ last.attempts > 0)
        => (last.attempts = 2 /\ ~last.raised)

\* the tags the ingress hook made that a context or the registry holds
IngressTags ==
    {tag \in {registry[fp] : fp \in DOMAIN registry}
            \cup UNION {{ctx[t].tags_by_fingerprint[fp] :
                            fp \in DOMAIN ctx[t].tags_by_fingerprint} :
                        t \in {t \in Tasks : ctx[t] # NoCtx}} :
        tag.source = HttpSource("POST", "/signup")}

\* C13: the ingress hook tags a field only if its name is in the configured
\* input-field map and its value is not empty: no context and no registry
\* holds an ingress tag of an unconfigured field or of an empty value.
C13_OnlyConfiguredFieldsTagged ==
    \A tag \in IngressTags : tag.field \in InputFieldNames /\ tag.preview # ""

\* C14: the ingress hook of a request writes one event per field it tagged,
\* each carrying that field's tag: the events table grows by the number of
\* tags the new context holds, and each of those tags is the single matched
\* tag of one of the new events.
C14_OneIngressEventPerTaggedField ==
    [][\A t \in Tasks :
        (ctx[t] = NoCtx /\ ctx'[t] # NoCtx)
            => /\ Len(events') = Len(events)
                                    + Cardinality(DOMAIN ctx'[t].tags_by_fingerprint)
               /\ \A fp \in DOMAIN ctx'[t].tags_by_fingerprint :
                    \E i \in (Len(events) + 1)..Len(events') :
                        /\ events'[i].event_type = "DATA_COLLECTION"
                        /\ MatchedFingerprints(events'[i]) = {fp}]_vars

\* the identifiers of a row of data_sharing_events, as a set
IdentifierSet(e) == {e.identifiers[i] : i \in 1..Len(e.identifiers)}

\* C15: detect_suspicious_sharing surfaces a group only if its count is
\* strictly above the threshold; a group whose count equals the threshold
\* is not surfaced.
C15_SurfacedOnlyAboveThreshold ==
    last.op = "detect" =>
        \A i \in 1..Len(last.groups) : last.groups[i].count > last.threshold

\* C16: the detector groups by event type, destination and the set of
\* identifiers: a surfaced group counts every event of the user with its
\* event type, its destination and its identifiers in whatever order they
\* were stored.
C16_GroupedByIdentifierSet ==
    [][\A user_id \in AppUsers, threshold \in 1..MaxThreshold :
          Detect(user_id, threshold) =>
             \A i \in 1..Len(last'.groups) :
                LET g == last'.groups[i]
                    rows == app.data_sharing_events
                IN g.count =
                     Cardinality({k \in 1..Len(rows) :
                        /\ rows[k].user_id = user_id
                        /\ rows[k].event_type = g.event_type
                        /\ rows[k].destination = g.destination
                        /\ IdentifierSet(rows[k]) = IdentifierSet(g)})]_vars

\* C17: an event older than the detection window never contributes to the
\* count of a group the detector surfaces.
C17_OldEventsNotCounted ==
    [][\A user_id \in AppUsers, threshold \in 1..MaxThreshold :
          Detect(user_id, threshold) =>
             \A i \in 1..Len(last'.groups) :
                \A k \in 1..Len(last'.groups[i].events) :
                   app.data_sharing_events[last'.groups[i].events[k]].timestamp
                      + DetectionWindow >= app.now]_vars

\* C18: the report exported for an owner holds every recorded event that
\* references the owner, by its user id or by an identifier of a tag
\* matched in it.
C18_ExportHoldsEveryEventOfOwner ==
    [][\A user_id \in AppUsers :
          Export(user_id) =>
             \A k \in 1..Len(app.data_sharing_events) :
                LET e == app.data_sharing_events[k]
                IN (e.user_id = user_id \/ OwnerIdentifier(user_id) \in IdentifierSet(e))
                   => \E j \in 1..Len(last'.report.sharing_events) :
                         last'.report.sharing_events[j].event_id = e.event_id]_vars

C20_DestinationIsSchemeAndHost ==
    \A i \in EventIds :
        events[i].event_type = "DATA_SHARE" =>
            UrlText(events[i].target) = Origin(events[i].target)

\* the headers of an outbound call that carry a credential
SecretHeaders == {"Authorization", "Cookie", "X-Api-Key", "X-Auth-Token"}

\* the headers a DATA_SHARE event holds in its payload
SharedHeaders(e) ==
    IF HasKey(Get(e.payload, "payload"), "headers")
    THEN Get(Get(e.payload, "payload"), "headers").items
    ELSE <<>>

\* C21: no DATA_SHARE event holds the value of an authorization or
\* secret-bearing header (Authorization, Cookie, X-Api-Key, X-Auth-Token) in
\* its payload.
C21_NoSecretHeaderShared ==
    \A i \in EventIds :
        events[i].event_type = "DATA_SHARE" =>
            \A k \in 1..Len(SharedHeaders(events[i])) :
                SharedHeaders(events[i])[k][1] \notin SecretHeaders

\* C23: every fingerprint in the map of a live RequestContext is also in the
\* GlobalRegistry.
C23_ContextTagsInRegistry ==
    \A t \in Tasks :
        ctx[t] # NoCtx =>
            DOMAIN ctx[t].tags_by_fingerprint \subseteq DOMAIN registry

C23_Witness ==
    \E t \in Tasks :
        /\ ctx[t] # NoCtx
        /\ Cardinality(DOMAIN ctx[t].tags_by_fingerprint) = 2
        /\ DOMAIN ctx[t].tags_by_fingerprint \subseteq DOMAIN registry

\* the place at which a fingerprint is first discovered among the leaves
FirstIndex(fps, f) == CHOOSE i \in 1..Len(fps) : fps[i] = f /\ \A j \in 1..(i - 1) : fps[j] # f

\* the tags of the context c, as a map from fingerprints
ContextTags(c) == IF c # NoCtx THEN c.tags_by_fingerprint ELSE <<>>

\* tags is what matching the leaves fps against context c and registry reg
\* must give: one tag per fingerprint, the context's matches first and then
\* the matches only the registry has, each part in discovery order, the
\* context's tag taken where both hold one
MatchedInOrder(tags, fps, c, reg) ==
    /\ \A i, j \in 1..Len(tags) : tags[i].fingerprint = tags[j].fingerprint => i = j
    /\ \A i \in 1..Len(tags) :
          /\ \E k \in 1..Len(fps) : fps[k] = tags[i].fingerprint
          /\ tags[i] = IF tags[i].fingerprint \in DOMAIN ContextTags(c)
                       THEN ContextTags(c)[tags[i].fingerprint]
                       ELSE reg[tags[i].fingerprint]
    /\ \A i, j \in 1..Len(tags) :
          i < j =>
             LET fromCtx(k) == tags[k].fingerprint \in DOMAIN ContextTags(c)
             IN /\ fromCtx(j) => fromCtx(i)
                /\ (fromCtx(i) = fromCtx(j))
                      => FirstIndex(fps, tags[i].fingerprint)
                            < FirstIndex(fps, tags[j].fingerprint)

\* C24: the tags matched to the payload of an outbound call hold one tag per
\* fingerprint, the matches of the caller's RequestContext before those only
\* the GlobalRegistry has, each in the order the leaves were discovered, and
\* the context's tag where both hold one.  The caller is the task whose
\* context carries the event's request_id (a caller outside any request has
\* none, and then no context is matched).
C24_MatchOrder ==
    [][(last'.op = "request" /\ Len(events') = Len(events) + 1) =>
          \A t \in Tasks :
             CtxRequestId(ctx[t]) = events'[Len(events')].request_id
                => MatchedInOrder(events'[Len(events')].matched_tags,
                                  PayloadFingerprints(normalise_payload(last'.call.kwargs)),
                                  ctx[t], registry)]_vars

C24_Witness ==
    /\ last.op = "request"
    /\ events # <<>>
    /\ LastEvent.event_type = "DATA_SHARE"
    /\ Len(LastEvent.matched_tags) = 2
    /\ \E t \in Tasks :
          /\ ctx[t] # NoCtx
          /\ ctx[t].request_id = LastEvent.request_id
          /\ LastEvent.matched_tags[1].fingerprint \in DOMAIN ctx[t].tags_by_fingerprint
          /\ LastEvent.matched_tags[1] # registry[LastEvent.matched_tags[1].fingerprint]
          /\ LastEvent.matched_tags[2].fingerprint \notin DOMAIN ctx[t].tags_by_fingerprint

\* the distinct tags the context c and the registry reg hold
KnownTags(c, reg) ==
    {ContextTags(c)[f] : f \in DOMAIN ContextTags(c)} \cup {reg[f] : f \in DOMAIN reg}

\* C25: every distinct tag whose value is a leaf of the payload of an outbound
\* call is in the matched_tags of the event recorded for it; none of several
\* tags of one value is dropped.
C25_EveryMatchingTagRecorded ==
    [][\A t \in Tasks, url \in Urls, kwargs \in OutboundKwargs, outcome \in Outcomes :
          (Request(t, "POST", url, kwargs, outcome) /\ Len(events') = Len(events) + 1)
             => \A tag \in KnownTags(ctx[t], registry) :
                   (\E k \in 1..Len(PayloadFingerprints(normalise_payload(kwargs))) :
                       PayloadFingerprints(normalise_payload(kwargs))[k] = tag.fingerprint)
                   => \E i \in 1..Len(events'[Len(events')].matched_tags) :
                         events'[Len(events')].matched_tags[i] = tag]_vars

\* C30: for every fingerprint, the field, category, description and owner in
\* table fingerprints are those of the tag the GlobalRegistry holds for it.
C30_StoreAgreesWithRegistry ==
    \A f \in DOMAIN fingerprints :
        f \in DOMAIN registry =>
            /\ fingerprints[f].field = registry[f].field
            /\ fingerprints[f].category = registry[f].category
            /\ fingerprints[f].description = registry[f].description
            /\ fingerprints[f].owner = registry[f].owner

\* runtime_provenance: the tags the context c holds under a field name
RPNamedTags(c, field) ==
    {c.tag_records[i].tag : i \in {i \in 1..Len(c.tag_records) : c.tag_records[i].field = field}}

\* runtime_provenance: the tags recorded so far, in any request, for a value
\* hash
RPKnownTags(value_hash) ==
    {rp.data_events[i].tag :
        i \in {i \in 1..Len(rp.data_events) :
                 rp.data_events[i].metadata.value_hash = value_hash}}

\* C26: for each column written, the row of the storage event carries a tag
\* the current request registered under the column's name if there is one,
\* whatever its value, and otherwise a tag of the value's fingerprint if the
\* request or any earlier one registered that value.
C26_NameMatchThenFingerprint ==
    [][\A t \in Tasks, obj \in RPEntities :
          RPBeforeFlush(t, obj, FALSE) =>
             \A k \in (Len(rp.storage_events) + 1)..Len(rp'.storage_events) :
                LET row == rp'.storage_events[k]
                    named == RPNamedTags(rp.ctx[t], row.field)
                    known == RPKnownTags(hash_preview(GetAttr(obj, row.field), hash_salt))
                IN /\ named # {} => row.tag \in named
                   /\ (named = {} /\ known # {}) => row.tag \in known]_vars

\* C22: with an audit token configured, an audit request whose X-Audit-Token
\* header and audit_token argument both differ from it is answered 401 with
\* the error body only, whatever the endpoint
C22_TokenRequired ==
    (/\ last.op = "audit"
     /\ last.expected # NoAuditToken
     /\ last.header # last.expected
     /\ last.args.audit_token # last.expected)
    => /\ last.response.status = 401
       /\ DOMAIN last.response.body = {"error"}

\* a request with a wrong header is turned away while the store holds events
C22_Witness ==
    /\ last.op = "audit"
    /\ last.expected = AuditToken
    /\ last.header = "guess"
    /\ last.args.audit_token = ""
    /\ last.response.status = 401
    /\ Len(events) > 1

\* an authorised listing of /runtime-audit/events
Listing == last.op = "audit" /\ last.endpoint = "events" /\ last.response.status # 401

\* every step leaves the rows of table events in place and adds new ones at
\* the end
StoreAppendOnly ==
    [][/\ Len(events') >= Len(events)
       /\ \A i \in 1..Len(events) : events'[i] = events[i]]_vars

\* C27: a listing of the events answers 200 and, recency first, shows the
\* events of each request id in the reverse of the order in which they were
\* recorded (event ids count the interceptions in the order they occurred)
C27_ListedInRequestOrder ==
    Listing =>
        /\ last.response.status = 200
        /\ LET listed == last.response.body.events
           IN \A i, j \in 1..Len(listed) :
                (i < j /\ listed[i].request_id = listed[j].request_id)
                    => listed[i].event_id > listed[j].event_id

\* C28: a listing without a type filter and with a limit that covers the
\* table answers 200 and shows every stored event with the event_id,
\* event_type, actor, target, payload, request_id, user_id and matched_tags
\* it was recorded with
C28_EventsRoundTrip ==
    (/\ Listing
     /\ last.args.event_type = ""
     /\ last.args.limit = "")
    => /\ last.response.status = 200
       /\ \A k \in 1..Len(events) :
            \E i \in 1..Len(last.response.body.events) :
               LET d == last.response.body.events[i]
                   e == events[k]
               IN /\ d.event_id = e.event_id
                  /\ d.event_type = e.event_type
                  /\ d.actor = e.actor
                  /\ d.target = TargetText(e)
                  /\ d.payload = e.payload
                  /\ d.request_id = e.request_id
                  /\ d.user_id = e.user_id
                  /\ d.matched_tags = e.matched_tags

\* a call of init_runtime_tracking in a process already initialised changes
\* nothing: not the globals, the trackers, the hooks installed, the registry
\* or the store
RepeatedInitChangesNothing ==
    (proc.INITIALISED /\ last' = LastInit)
        => UNCHANGED <<proc, registry, events, fingerprints, ctx, ignored_hosts>>

\* the step is a call of the patched Session.request that added n rows to
\* the store, each a DATA_SHARE event
SharesRecorded(n) ==
    /\ Len(events') = Len(events) + n
    /\ \A i \in (Len(events) + 1)..Len(events') : events'[i].event_type = "DATA_SHARE"

=============================================================================
